---------------------------- MODULE Spec2Model ----------------------------
(***************************************************************************)
(* Flowcast: retailers generate price forecasts (pages/App.py and          *)
(* pages/Retailer.py), users browse them, keep a cart and lock prices      *)
(* (pages/Forecast.py), behind a username/password/role login (Auth.py).   *)
(*                                                                         *)
(* Units.  Money is counted in paise (1/100 rupee): an MRP of m rupees is   *)
(* 100*m, a model multiplier is given in percent, so multiplier*mrp is      *)
(* pct*m paise and the 0.60 floor is 60*m paise.  days_to_expiry is        *)
(* counted in tenths of a day (both retailer inputs are rounded or drawn    *)
(* to one decimal).  A calendar date (the 'YYYY-MM-DD' text the tables      *)
(* hold) is its day number; a pandas Timestamp is counted in hours, so      *)
(* midnight of day d is 24*d.                                               *)
(***************************************************************************)
EXTENDS Integers, Sequences, FiniteSets, TLC

VARIABLES
    users,            \* users.db: table users (set of rows, username is the key)
    forecasts,        \* retail_forecasts.db: table forecasts, rows per (category, product)
    generated_by,     \* history: the input of the generation that wrote each product's rows
    user_cart,        \* retail_forecasts.db: table user_cart, rows per username
    today,            \* the calendar day of datetime.date.today()
    logged_in,        \* st.session_state.logged_in, per browser session
    username,         \* st.session_state.username
    role,             \* st.session_state.role
    has_cart,         \* "cart" in st.session_state
    cart,             \* st.session_state.cart: list of (category, product, quantity)
    locked_prices,    \* st.session_state.locked_prices: (category, product) -> (date, price)
    lock_status,      \* st.session_state.lock_status: (category, product) -> bool
    latest_forecast,  \* st.session_state.latest_forecast (<<>> is None)
    latest_product,   \* st.session_state.latest_product
    category,         \* the category selectbox of the user page
    product,          \* the product selectbox of the user page
    qty_count,        \* st.session_state.qty_count
    lastOp            \* history: the add or removal the last cart handler made, if it made one

vars == <<users, forecasts, generated_by, user_cart, today, logged_in, username, role,
          has_cart, cart, locked_prices, lock_status, latest_forecast,
          latest_product, category, product, qty_count, lastOp>>

dbVars == <<users, forecasts, generated_by, user_cart>>
authVars == <<logged_in, username, role>>
cartVars == <<has_cart, cart, locked_prices, lock_status>>
viewVars == <<latest_forecast, latest_product, category, product, qty_count>>

-----------------------------------------------------------------------------
(* Bounds of the model *)

\* the clock stops advancing at this day
MaxDay == 1
\* the increment button is no longer pressed at this quantity
MaxQty == 2

-----------------------------------------------------------------------------
(* Program constants *)

HorizonApp == 10
HorizonRetailer == 12
MinMultiplier == 60
WindowDays == 3
InitialQty == 1

Sessions == {"s1", "s2"}
Categories == {"Vegetables", "Fruits", "Dairy"}
Products == {"Milk", "Apple"}
Keys == Categories \X Products

NoUser == ""
NoRole == ""
None == <<>>
NULL == <<>>
NoProduct == "None"
NoCategory == "None"

\* alphabetical order of the names the selectboxes sort
NameOrder == <<"Apple", "Dairy", "Fruits", "Milk", "Vegetables">>
Rank(n) == CHOOSE i \in 1..Len(NameOrder) : NameOrder[i] = n
Smallest(S) == CHOOSE n \in S : \A m \in S : Rank(n) <= Rank(m)

Min(a, b) == IF a <= b THEN a ELSE b
Max(a, b) == IF a >= b THEN a ELSE b

-----------------------------------------------------------------------------
(* Dates and timestamps *)

\* pd.to_datetime of a 'YYYY-MM-DD' text: midnight of that day
ToDatetime(d) == d * 24
\* Timestamp.strftime("%Y-%m-%d"), Timestamp.date(): the day, time of day dropped
Strftime(ts) == ts \div 24
\* Timestamp.normalize(): midnight of the timestamp's day
Normalize(ts) == ts - (ts % 24)
\* datetime.date.weekday(): 0 is Monday (day 0 of the model is a Monday)
Weekday(d) == d % 7

-----------------------------------------------------------------------------
(* Forecast generation: pages/App.py and pages/Retailer.py                 *)
(*                                                                         *)
(* A generation input g is what one press of "Predict & Save" works on:     *)
(* the sidebar inputs (category, product, stock, discount, dte, mrp), what  *)
(* the providers answer (city_ok, weather_ok, weather, holiday_ok,          *)
(* holidays) and what the pickled model and its explainer do (model_ok,     *)
(* mults: one multiplier, in percent, per row).                             *)

FirstRows(seq, n) == SubSeq(seq, 1, Min(n, Len(seq)))

\* days_to_expiry column: max(days_to_expiry - i, 0) for row i = 0, 1, ...
DaysToExpiry(dte, i) == Max(dte - 10 * i, 0)

\* App.py: holiday flags of the horizon, all zero when the provider fails
get_calendarific_holidays(g, start_date, days) ==
    [i \in 1..days |->
        IF g.holiday_ok
        THEN (IF (start_date + i - 1) \in g.holidays THEN 1 ELSE 0)
        ELSE 0]

\* a fallback of Retailer.py that forgets the weekends (the fault property C21 detects)
get_combined_holidays_zeros(g, start_date, days) ==
    [i \in 1..days |->
        LET d == start_date + i - 1 IN
        IF g.holiday_ok
        THEN (IF d \in g.holidays \/ Weekday(d) \in {5, 6} THEN 1 ELSE 0)
        ELSE 0]

\* Retailer.py: gazetted holidays and weekends, weekends alone when the provider fails
get_combined_holidays(g, start_date, days) ==
    [i \in 1..days |->
        LET d == start_date + i - 1 IN
        IF g.holiday_ok
        THEN (IF d \in g.holidays \/ Weekday(d) \in {5, 6} THEN 1 ELSE 0)
        ELSE (IF Weekday(d) \in {5, 6} THEN 1 ELSE 0)]

\* App.py: the three provider days repeated four times, cut to ten
AppWeather(g) == FirstRows(g.weather \o g.weather \o g.weather \o g.weather, HorizonApp)

\* App.py price rules for row i (0-based): Dairy expiry, cap, then the floor
PriceApp(cat, mult, mrp, dte_i) ==
    LET min_price == MinMultiplier * mrp
        forecasted == IF cat = "Dairy"
                      THEN (IF dte_i > 0 THEN mult * mrp ELSE 0)
                      ELSE Min(mult * mrp, 100 * mrp)
    IN  Max(forecasted, min_price)

\* int(days_to_expiry)
ExpiryDay(dte) == dte \div 10

\* Retailer.py price rules without the cap at the MRP (the fault property C11 detects)
PriceRetailerUncapped(i, mult, mrp, dte) ==
    IF i < ExpiryDay(dte) THEN Max(mult * mrp, MinMultiplier * mrp) ELSE 0

\* Retailer.py price rules for row i (0-based): cap and floor before expiry_day, zero after
PriceRetailer(i, mult, mrp, dte) ==
    LET predicted_price == Min(mult * mrp, 100 * mrp)
        min_price == MinMultiplier * mrp
    IN  IF i < ExpiryDay(dte) THEN Max(predicted_price, min_price) ELSE 0

\* App.py: the rows of input_df as inserted into forecasts
AppRows(g, start_day) ==
    LET w == AppWeather(g)
        h == get_calendarific_holidays(g, start_day, HorizonApp)
    IN  [n \in 1..HorizonApp |->
            LET i == n - 1
                dte_i == DaysToExpiry(g.dte, i)
            IN  [category |-> g.category, product |-> g.product,
                 forecast_day |-> start_day + i,
                 forecasted_price |-> PriceApp(g.category, g.mults[n], g.mrp, dte_i),
                 stock |-> g.stock, discount |-> g.discount, holiday |-> h[n],
                 rain |-> w[n].rain, temp |-> w[n].temp, days_to_expiry |-> dte_i]]

\* Retailer.py: the rows of input_df as inserted into forecasts
RetailerRows(g, start_day) ==
    LET h == get_combined_holidays(g, start_day, HorizonRetailer)
    IN  [n \in 1..HorizonRetailer |->
            LET i == n - 1 IN
            [category |-> g.category, product |-> g.product,
             forecast_day |-> start_day + i,
             forecasted_price |-> PriceRetailer(i, g.mults[n], g.mrp, g.dte),
             stock |-> g.stock, discount |-> g.discount, holiday |-> h[n],
             rain |-> g.weather[n].rain, temp |-> g.weather[n].temp,
             days_to_expiry |-> DaysToExpiry(g.dte, i)]]

\* App.py reaches "Save to DB": no exception was raised on the way
AppSucceeds(g) ==
    /\ g.weather_ok                        \* WeatherAPI answered 200
    /\ Len(AppWeather(g)) = HorizonApp     \* date_range(periods=10) fits the frame
    /\ g.model_ok                          \* model.predict and the explainer returned

\* a "DB Save" placed before the model and the explainer have returned (the fault
\* property C20 detects)
RetailerSucceedsBeforeModel(g) ==
    /\ g.city_ok
    /\ g.weather_ok
    /\ Len(g.weather) = HorizonRetailer
    /\ HorizonRetailer - ExpiryDay(g.dte) >= 0

\* Retailer.py reaches "DB Save": no st.stop() and no exception on the way
RetailerSucceeds(g) ==
    /\ g.city_ok                                 \* validate_state_matches_city
    /\ g.weather_ok
    /\ Len(g.weather) = HorizonRetailer          \* 12 rows, date_range(periods=12) fits
    /\ g.model_ok
    /\ HorizonRetailer - ExpiryDay(g.dte) >= 0   \* np.zeros(12 - expiry_day)

\* a session that passed the retailer pages' access control
IsRetailer(s) == logged_in[s] /\ role[s] = "Retailer"

\* the INSERTs without the DELETE before them (the fault property C19 detects)
SaveForecastAppending(g, rows) ==
    /\ forecasts' = [forecasts EXCEPT ![<<g.category, g.product>>] = @ \o rows]
    /\ generated_by' = [generated_by EXCEPT ![<<g.category, g.product>>] = <<g>>]

\* DELETE FROM forecasts WHERE category = ? AND product = ?, then the INSERTs
SaveForecast(g, rows) ==
    /\ forecasts' = [forecasts EXCEPT ![<<g.category, g.product>>] = rows]
    /\ generated_by' = [generated_by EXCEPT ![<<g.category, g.product>>] = <<g>>]

\* the widgets' ranges of the two retailer pages
AppInputOk(g) ==
    /\ g.stock \in 10..200 /\ g.discount \in 0..100 /\ g.mrp \in 10..1000
    /\ IF g.category = "Dairy" THEN g.dte \in 0..100 ELSE g.dte \in 100..400
RetailerInputOk(g) ==
    /\ g.stock \in 10..200 /\ g.discount \in 0..100 /\ g.mrp \in 10..1000
    /\ g.dte \in 0..300

\* pages/App.py, "Predict & Save"
PredictAndSaveApp(s, g) ==
    /\ IsRetailer(s)
    /\ g.page = "App"
    /\ AppInputOk(g)
    /\ IF AppSucceeds(g)
       THEN SaveForecast(g, AppRows(g, today))
       ELSE UNCHANGED <<forecasts, generated_by>>
    /\ UNCHANGED <<users, user_cart, today, authVars, cartVars, viewVars, lastOp>>

\* pages/Retailer.py, "Predict & Save"
PredictAndSaveRetailer(s, g) ==
    /\ IsRetailer(s)
    /\ g.page = "Retailer"
    /\ RetailerInputOk(g)
    /\ IF RetailerSucceeds(g)
       THEN SaveForecast(g, RetailerRows(g, today))
       ELSE UNCHANGED <<forecasts, generated_by>>
    /\ UNCHANGED <<users, user_cart, today, authVars, cartVars, viewVars, lastOp>>

\* the retailer pages' sidebar Logout
RetailerLogout(s) ==
    /\ IsRetailer(s)
    /\ logged_in' = [logged_in EXCEPT ![s] = FALSE]
    /\ username' = [username EXCEPT ![s] = NoUser]
    /\ role' = [role EXCEPT ![s] = NoRole]
    /\ UNCHANGED <<dbVars, today, cartVars, viewVars, lastOp>>

-----------------------------------------------------------------------------
(* Auth.py *)

\* SELECT * FROM users WHERE username = ? AND password = ? AND role = ?
login_user(u, pw, r) ==
    {row \in users : row.username = u /\ row.password = pw /\ row.role = r}

\* a create_user that overwrites the stored row (the fault property C18 detects)
create_user_replacing(u, pw, name, r) ==
    {row \in users : row.username # u}
        \cup {[username |-> u, password |-> pw, name |-> name, role |-> r]}

\* create_user: the table after the INSERT; username is the primary key, so the
\* INSERT of a stored username raises IntegrityError and the table stays as it is
create_user(u, pw, name, r) ==
    IF \E row \in users : row.username = u
    THEN users
    ELSE users \cup {[username |-> u, password |-> pw, name |-> name, role |-> r]}

\* the checks of "Create Account" that come before create_user
SignupValid(u, pw, name, confirm) ==
    /\ u # "" /\ pw # "" /\ name # "" /\ confirm # ""     \* all([...])
    /\ pw = confirm
    /\ Len(pw) >= 4

\* Auth.py "Create Account", on the page a logged-out session is shown
CreateAccount(s, u, pw, name, confirm, r) ==
    /\ ~logged_in[s]
    /\ users' = IF SignupValid(u, pw, name, confirm)
                THEN create_user(u, pw, name, r)
                ELSE users
    /\ UNCHANGED <<forecasts, generated_by, user_cart, today, authVars, cartVars,
                   viewVars, lastOp>>

-----------------------------------------------------------------------------
(* pages/Forecast.py: persistence of the cart *)

RowKey(r) == <<r.category, r.product>>
EntryKey(e) == <<e[1], e[2]>>
CartKeys(c) == {EntryKey(c[i]) : i \in 1..Len(c)}
\* any(c == category and p == product for c, p, _ in cart)
InCart(c, key) == \E i \in 1..Len(c) : EntryKey(c[i]) = key

Restrict(f, S) == IF S = {} THEN <<>> ELSE [k \in S |-> f[k]]
\* d[key] = v
Put(f, key, v) == [k \in DOMAIN f \cup {key} |-> IF k = key THEN v ELSE f[k]]
\* a dict.pop that leaves the key in place (the fault property C2 detects)
PopNothing(f, key) == f
\* d.pop(key, None)
Pop(f, key) == Restrict(f, DOMAIN f \ {key})
\* list.pop(idx)
RemoveAt(c, idx) == SubSeq(c, 1, idx - 1) \o SubSeq(c, idx + 1, Len(c))

\* rows that carry the lock's date without its price (the fault property C7 detects)
SavedRowsDateOnly(c, lp) ==
    [i \in 1..Len(c) |->
        LET key == EntryKey(c[i]) IN
        [category |-> c[i][1], product |-> c[i][2], quantity |-> c[i][3],
         locked_date |-> IF key \in DOMAIN lp THEN <<Strftime(lp[key][1])>> ELSE NULL,
         locked_price |-> NULL]]

\* save_user_cart: the rows inserted for the session's cart, after the DELETE
SavedRows(c, lp) ==
    [i \in 1..Len(c) |->
        LET key == EntryKey(c[i]) IN
        IF key \in DOMAIN lp
        THEN [category |-> c[i][1], product |-> c[i][2], quantity |-> c[i][3],
              locked_date |-> <<Strftime(lp[key][1])>>, locked_price |-> <<lp[key][2]>>]
        ELSE [category |-> c[i][1], product |-> c[i][2], quantity |-> c[i][3],
              locked_date |-> NULL, locked_price |-> NULL]]

\* a save that writes nothing (the fault property C6 detects)
save_nothing(u, c, lp) == UNCHANGED user_cart

\* a save whose DELETE has no WHERE clause (the fault property C27 detects)
save_user_cart_delete_all(u, c, lp) ==
    user_cart' = [v \in DOMAIN user_cart |-> IF v = u THEN SavedRows(c, lp) ELSE <<>>]

\* save_user_cart(username) on the session state the handler leaves
save_user_cart(u, c, lp) == user_cart' = [user_cart EXCEPT ![u] = SavedRows(c, lp)]

\* a load that tests the truth value of lprice, so that a locked price of 0 reads as
\* no lock (the fault property C25 detects)
IsLockedRowTruthy(r) ==
    r.locked_date # NULL /\ r.locked_price # NULL /\ r.locked_price # <<0>>

\* load_user_session_cart: "if ldate and lprice is not None"
IsLockedRow(r) == r.locked_date # NULL /\ r.locked_price # NULL
LastRow(rows, S) == rows[CHOOSE i \in S : \A j \in S : j <= i]

LoadCart(rows) ==
    [i \in 1..Len(rows) |-> <<rows[i].category, rows[i].product, rows[i].quantity>>]

LoadLockedPrices(rows) ==
    LET locked == {i \in 1..Len(rows) : IsLockedRow(rows[i])}
        keys == {RowKey(rows[i]) : i \in locked}
    IN  Restrict([k \in keys |->
                    LET r == LastRow(rows, {i \in locked : RowKey(rows[i]) = k})
                    IN  <<ToDatetime(r.locked_date[1]), r.locked_price[1]>>],
                 keys)

LoadLockStatus(rows) ==
    LET keys == {RowKey(rows[i]) : i \in 1..Len(rows)}
    IN  Restrict([k \in keys |->
                    ~IsLockedRow(LastRow(rows, {i \in 1..Len(rows) : RowKey(rows[i]) = k}))],
                 keys)

-----------------------------------------------------------------------------
(* pages/Forecast.py: forecasts as the user page reads them *)

\* load_available_products: SELECT DISTINCT category, product FROM forecasts
AvailableKeys == {k \in Keys : forecasts[k] # <<>>}

\* fetch_prediction: the rows of (category, product) by ascending forecast_day (the
\* order a generation inserts them in), forecast_day parsed by pd.to_datetime
fetch_prediction(c, p) ==
    LET rows == forecasts[<<c, p>>]
    IN  [i \in 1..Len(rows) |-> [rows[i] EXCEPT !.forecast_day = ToDatetime(@)]]

\* the selectboxes' first options: sorted categories, sorted products of the category
DefaultCategory ==
    IF AvailableKeys = {} THEN NoCategory
    ELSE Smallest({k[1] : k \in AvailableKeys})
DefaultProduct ==
    IF AvailableKeys = {} THEN NoProduct
    ELSE Smallest({k[2] : k \in {a \in AvailableKeys : a[1] = DefaultCategory}})

\* an access control that does not look at the role (the fault property C17 detects)
IsLoggedIn(s) == logged_in[s]

\* a session that passed the user page's access control
IsUser(s) == logged_in[s] /\ role[s] = "User"
\* the selectboxes show the pair (it is among the products on offer)
SelectionValid(s) == <<category[s], product[s]>> \in AvailableKeys

\* pd.Timestamp.today().normalize(), whatever the hour of the day
TodayTimestamp == Normalize(ToDatetime(today) + 9)

IsDairy(cat) == cat = "Dairy"

\* Forecast Display: df after the Dairy filter, for the category now selected
DisplayDf(s) ==
    LET df == latest_forecast[s]
        Positive(r) == r.forecasted_price > 0
    IN  IF IsDairy(category[s]) THEN SelectSeq(df, Positive) ELSE df

\* rolling_df = df[df.index >= today].head(3)
RollingDf(s) ==
    LET FromToday(r) == r.forecast_day >= TodayTimestamp
    IN  FirstRows(SelectSeq(DisplayDf(s), FromToday), WindowDays)

\* idxmin(): the first row of minimum forecasted_price
BestRow(rdf) ==
    rdf[CHOOSE i \in 1..Len(rdf) :
            /\ \A j \in 1..Len(rdf) : rdf[i].forecasted_price <= rdf[j].forecasted_price
            /\ \A j \in 1..(i - 1) : rdf[j].forecasted_price > rdf[i].forecasted_price]

\* lock_key = (selected_category, product), product being latest_product
LockKey(s) == <<category[s], latest_product[s]>>

\* a lock column that does not look at the cart (the fault property C3 detects)
LockEnabledWithoutCart(s) ==
    /\ latest_forecast[s] # None
    /\ RollingDf(s) # <<>>
    /\ LockKey(s) \notin DOMAIN locked_prices[s]
    /\ (LockKey(s) \in DOMAIN lock_status[s] => lock_status[s][LockKey(s)])

\* the branch of the lock column that says "You've already locked this price. Modify
\* cart to unlock again.": in the cart, not is_locked, not is_clickable
AlreadyLockedBranch(s) ==
    /\ latest_forecast[s] # None
    /\ RollingDf(s) # <<>>
    /\ InCart(cart[s], LockKey(s))
    /\ LockKey(s) \notin DOMAIN locked_prices[s]
    /\ LockKey(s) \in DOMAIN lock_status[s] /\ ~lock_status[s][LockKey(s)]

\* the branch of the lock column that renders the enabled "Lock this price" button
LockEnabled(s) ==
    /\ latest_forecast[s] # None
    /\ RollingDf(s) # <<>>
    /\ InCart(cart[s], LockKey(s))
    /\ LockKey(s) \notin DOMAIN locked_prices[s]
    /\ (LockKey(s) \in DOMAIN lock_status[s] => lock_status[s][LockKey(s)])

-----------------------------------------------------------------------------
(* Handlers: one action per button press, with the script run it triggers *)

\* the history record of a handler that added or removed a cart entry; wasLocked:
\* the removed entry held a lock, or the added entry replaces the locked entry
\* that the handler before removed
Op(name, s, key, wasLocked) == [op |-> name, s |-> s, key |-> key, wasLocked |-> wasLocked]
OtherOp == Op("other", "", <<>>, FALSE)

\* Auth.py "Login", the rerun's redirect, and the first run of the landing page:
\* for a User, pages/Forecast.py initialises the session state
Login(s, u, pw, r) ==
    /\ ~logged_in[s]
    /\ IF login_user(u, pw, r) = {}
       THEN UNCHANGED vars
       ELSE /\ logged_in' = [logged_in EXCEPT ![s] = TRUE]
            /\ username' = [username EXCEPT ![s] = u]
            /\ role' = [role EXCEPT ![s] = r]
            /\ IF r = "User"
               THEN /\ has_cart' = [has_cart EXCEPT ![s] = TRUE]
                    /\ IF has_cart[s]
                       THEN UNCHANGED <<cart, locked_prices, lock_status>>
                       ELSE /\ cart' = [cart EXCEPT ![s] = LoadCart(user_cart[u])]
                            /\ locked_prices' =
                                 [locked_prices EXCEPT ![s] = LoadLockedPrices(user_cart[u])]
                            /\ lock_status' =
                                 [lock_status EXCEPT ![s] = LoadLockStatus(user_cart[u])]
                    /\ qty_count' = [qty_count EXCEPT ![s] = IF @ = 0 THEN InitialQty ELSE @]
                    /\ category' = [category EXCEPT ![s] = DefaultCategory]
                    /\ product' = [product EXCEPT ![s] = DefaultProduct]
                    /\ lastOp' = OtherOp
                    /\ UNCHANGED <<latest_forecast, latest_product>>
               ELSE UNCHANGED <<cartVars, viewVars, lastOp>>
            /\ UNCHANGED <<dbVars, today>>

\* the sidebar selectboxes: the user picks a category and one of its products
Select(s, c, p) ==
    /\ IsUser(s)
    /\ <<c, p>> \in AvailableKeys
    /\ category' = [category EXCEPT ![s] = c]
    /\ product' = [product EXCEPT ![s] = p]
    /\ UNCHANGED <<dbVars, today, authVars, cartVars, latest_forecast, latest_product,
                   qty_count, lastOp>>

\* "Generate Forecast"
GenerateForecast(s) ==
    /\ IsUser(s)
    /\ SelectionValid(s)
    /\ LET df == fetch_prediction(category[s], product[s]) IN
       IF df = <<>>
       THEN UNCHANGED <<latest_forecast, latest_product, qty_count>>
       ELSE /\ latest_forecast' = [latest_forecast EXCEPT ![s] = df]
            /\ latest_product' = [latest_product EXCEPT ![s] = product[s]]
            /\ qty_count' = [qty_count EXCEPT ![s] = InitialQty]
    /\ UNCHANGED <<dbVars, today, authVars, cartVars, category, product, lastOp>>

\* a page that never finds the pair in the cart (the fault property C4 detects)
item_never_in_cart(s) == FALSE

\* item_in_cart, for the pair the selectboxes show
item_in_cart(s) == InCart(cart[s], <<category[s], product[s]>>)

\* "Add to Cart" (rendered only when the selected pair is not in the cart)
AddToCart(s) ==
    /\ IsUser(s)
    /\ SelectionValid(s)
    /\ ~item_in_cart(s)
    /\ LET key == <<category[s], product[s]>> IN
       /\ cart' = [cart EXCEPT ![s] = Append(@, <<category[s], product[s], qty_count[s]>>)]
       /\ lock_status' = [lock_status EXCEPT ![s] = Put(@, key, TRUE)]
       /\ save_user_cart(username[s], cart'[s], locked_prices[s])
       /\ lastOp' = Op("add", s, key,
                       lastOp.op = "remove" /\ lastOp.key = key /\ lastOp.wasLocked)
    /\ UNCHANGED <<users, forecasts, generated_by, today, authVars, has_cart,
                   locked_prices, viewVars>>

\* "Lock this price"
Lock(s) ==
    /\ IsUser(s)
    /\ AvailableKeys # {}
    /\ LockEnabled(s)
    /\ LET best == BestRow(RollingDf(s))
           best_day == best.forecast_day
           best_price == best.forecasted_price
       IN  /\ locked_prices' =
                [locked_prices EXCEPT ![s] = Put(@, LockKey(s), <<best_day, best_price>>)]
           /\ lock_status' = [lock_status EXCEPT ![s] = Put(@, LockKey(s), FALSE)]
           /\ save_user_cart(username[s], cart[s], locked_prices'[s])
           /\ lastOp' = OtherOp
    /\ UNCHANGED <<users, forecasts, generated_by, today, authVars, has_cart, cart,
                   viewVars>>

\* the cart viewer renders the buttons of entry idx: its forecast is not empty
ButtonsShown(s, idx) ==
    /\ IsUser(s)
    /\ AvailableKeys # {}
    /\ idx \in 1..Len(cart[s])
    /\ fetch_prediction(cart[s][idx][1], cart[s][idx][2]) # <<>>

\* the cart viewer's plus button of entry idx
Increment(s, idx) ==
    /\ ButtonsShown(s, idx)
    /\ cart[s][idx][3] < MaxQty
    /\ LET e == cart[s][idx] IN
       /\ cart' = [cart EXCEPT ![s][idx] = <<e[1], e[2], e[3] + 1>>]
       /\ lock_status' = [lock_status EXCEPT ![s] = Put(@, EntryKey(e), TRUE)]
       /\ save_user_cart(username[s], cart'[s], locked_prices[s])
       /\ lastOp' = OtherOp
    /\ UNCHANGED <<users, forecasts, generated_by, today, authVars, has_cart,
                   locked_prices, viewVars>>

\* a minus button that never pops the entry (the fault property C5 detects)
CartAlwaysDecremented(c, idx) == [c EXCEPT ![idx] = <<@[1], @[2], @[3] - 1>>]

\* the minus button on entry idx of cart c: one less, or the entry popped at quantity 1
CartAfterDecrement(c, idx) ==
    IF c[idx][3] > 1
    THEN [c EXCEPT ![idx] = <<@[1], @[2], @[3] - 1>>]
    ELSE RemoveAt(c, idx)

\* a minus button that drops the lock at any quantity (the fault property C1 detects)
LocksDroppedOnDecrement(lp, e) == Pop(lp, EntryKey(e))

\* the minus button on entry e: locked_prices keeps the lock unless the entry is popped
LocksAfterDecrement(lp, e) == IF e[3] > 1 THEN lp ELSE Pop(lp, EntryKey(e))

\* a minus button that leaves lock_status as it is (the fault property C29 detects)
StatusKeptOnDecrement(ls, e) == ls

\* the minus button on entry e: lock_status is set to True, or popped with the entry
StatusAfterDecrement(ls, e) ==
    IF e[3] > 1 THEN Put(ls, EntryKey(e), TRUE) ELSE Pop(ls, EntryKey(e))

\* the cart viewer's minus button of entry idx
Decrement(s, idx) ==
    /\ ButtonsShown(s, idx)
    /\ LET e == cart[s][idx] IN
       /\ cart' = [cart EXCEPT ![s] = CartAfterDecrement(@, idx)]
       /\ locked_prices' = [locked_prices EXCEPT ![s] = LocksAfterDecrement(@, e)]
       /\ lock_status' = [lock_status EXCEPT ![s] = StatusAfterDecrement(@, e)]
       /\ save_user_cart(username[s], cart'[s], locked_prices'[s])
       /\ lastOp' = IF e[3] > 1
                    THEN OtherOp
                    ELSE Op("remove", s, EntryKey(e), EntryKey(e) \in DOMAIN locked_prices[s])
    /\ UNCHANGED <<users, forecasts, generated_by, today, authVars, has_cart, viewVars>>

\* the user page's sidebar Logout: save, pop the session keys, back to Auth.py
Logout(s) ==
    /\ IsUser(s)
    /\ save_user_cart(username[s], cart[s], locked_prices[s])
    /\ logged_in' = [logged_in EXCEPT ![s] = FALSE]
    /\ username' = [username EXCEPT ![s] = NoUser]
    /\ role' = [role EXCEPT ![s] = NoRole]
    /\ has_cart' = [has_cart EXCEPT ![s] = FALSE]
    /\ cart' = [cart EXCEPT ![s] = <<>>]
    /\ locked_prices' = [locked_prices EXCEPT ![s] = <<>>]
    /\ lock_status' = [lock_status EXCEPT ![s] = <<>>]
    /\ category' = [category EXCEPT ![s] = NoCategory]
    /\ product' = [product EXCEPT ![s] = NoProduct]
    /\ lastOp' = OtherOp
    /\ UNCHANGED <<users, forecasts, generated_by, today, latest_forecast,
                   latest_product, qty_count>>

\* midnight passes
Tick ==
    /\ today < MaxDay
    /\ today' = today + 1
    /\ UNCHANGED <<dbVars, authVars, cartVars, viewVars, lastOp>>

-----------------------------------------------------------------------------
(* Initial states *)

Usernames == {"u1", "u2", "r1"}
Roles == {"User", "Retailer"}

RegisteredUsers ==
    {[username |-> "u1", password |-> "pw-u1", name |-> "User One", role |-> "User"],
     [username |-> "r1", password |-> "pw-r1", name |-> "Retailer One", role |-> "Retailer"]}

\* the tables and the session state before anybody has logged in
InitTables ==
    /\ users = RegisteredUsers
    /\ forecasts = [k \in Keys |-> <<>>]
    /\ generated_by = [k \in Keys |-> <<>>]
    /\ user_cart = [u \in Usernames |-> <<>>]
    /\ today = 0

InitSessionState ==
    /\ has_cart = [s \in Sessions |-> FALSE]
    /\ cart = [s \in Sessions |-> <<>>]
    /\ locked_prices = [s \in Sessions |-> <<>>]
    /\ lock_status = [s \in Sessions |-> <<>>]
    /\ latest_forecast = [s \in Sessions |-> None]
    /\ latest_product = [s \in Sessions |-> NoProduct]
    /\ category = [s \in Sessions |-> NoCategory]
    /\ product = [s \in Sessions |-> NoProduct]
    /\ qty_count = [s \in Sessions |-> 0]
    /\ lastOp = Op("none", "", <<>>, FALSE)

Init ==
    /\ InitTables
    /\ InitSessionState
    /\ logged_in = [s \in Sessions |-> FALSE]
    /\ username = [s \in Sessions |-> NoUser]
    /\ role = [s \in Sessions |-> NoRole]

\* the retailer r1 has logged in at browser s2
InitRetailerIn ==
    /\ InitTables
    /\ InitSessionState
    /\ logged_in = [s \in Sessions |-> s = "s2"]
    /\ username = [s \in Sessions |-> IF s = "s2" THEN "r1" ELSE NoUser]
    /\ role = [s \in Sessions |-> IF s = "s2" THEN "Retailer" ELSE NoRole]

-----------------------------------------------------------------------------
(* The cart workflow: user u1 at browser s1, retailer r1 at browser s2 *)

\* what the providers and the model answer
Weather(n) == [i \in 1..n |-> [temp |-> 30, rain |-> 0]]
Pattern(a, b) == [n \in 1..HorizonRetailer |-> IF n % 2 = 1 THEN a ELSE b]

\* a generation input with the providers and the model answering
GenInput(pg, cat, prod, d, mrp, m) ==
    [page |-> pg, category |-> cat, product |-> prod, stock |-> 100, discount |-> 20,
     dte |-> d, mrp |-> mrp, city_ok |-> TRUE, weather_ok |-> TRUE,
     weather |-> IF pg = "App" THEN Weather(3) ELSE Weather(HorizonRetailer),
     holiday_ok |-> TRUE, holidays |-> {}, mults |-> m, model_ok |-> TRUE]

\* the retailer offers Milk as Dairy on Retailer.py, expired or one day from expiry,
\* and a product of the same name under Fruits on App.py, at two price patterns
CartGenInputs ==
    {GenInput("Retailer", "Dairy", "Milk", 0, 100, Pattern(80, 50)),
     GenInput("Retailer", "Dairy", "Milk", 10, 100, Pattern(80, 50)),
     GenInput("App", "Fruits", "Milk", 100, 100, Pattern(80, 50)),
     GenInput("App", "Fruits", "Milk", 100, 100, Pattern(50, 80))}

UserStep(s) ==
    \/ \E u \in {"u1"}, pw \in {"pw-u1", "wrong"}, r \in Roles : Login(s, u, pw, r)
    \/ \E k \in Keys : Select(s, k[1], k[2])
    \/ GenerateForecast(s)
    \/ AddToCart(s)
    \/ Lock(s)
    \/ \E idx \in 1..Cardinality(Keys) : Increment(s, idx)
    \/ \E idx \in 1..Cardinality(Keys) : Decrement(s, idx)
    \/ Logout(s)

RetailerStep(s) ==
    \/ \E g \in CartGenInputs : PredictAndSaveApp(s, g)
    \/ \E g \in CartGenInputs : PredictAndSaveRetailer(s, g)

Next == UserStep("s1") \/ RetailerStep("s2")

Spec == InitRetailerIn /\ [][Next]_vars

-----------------------------------------------------------------------------
(* pages/Forecast.py: the confidence label of the displayed window             *)
(*                                                                             *)
(* The statistics are taken on prices in whole rupees (the label runs use      *)
(* prices that are whole rupees).  With n rows, S their sum and Q the sum of   *)
(* their squares, mean() is S/n and std() (ddof = 1) is the root of            *)
(* (n*Q - S*S) / (n*(n-1)), so for n >= 2 and S > 0                            *)
(*   std/mean < pct/100  iff  10000*n*(n*Q - S*S) < pct*pct*(n-1)*S*S.         *)

Rupees(p) == p \div 100

RECURSIVE WindowSum(_)
WindowSum(rdf) ==
    IF rdf = <<>> THEN 0 ELSE Rupees(Head(rdf).forecasted_price) + WindowSum(Tail(rdf))

RECURSIVE WindowSumSq(_)
WindowSumSq(rdf) ==
    IF rdf = <<>> THEN 0
    ELSE Rupees(Head(rdf).forecasted_price) * Rupees(Head(rdf).forecasted_price)
         + WindowSumSq(Tail(rdf))

\* a comparison that lets the boundary value pass (the fault property C14 detects)
RatioAtMost(rdf, pct) ==
    LET n == Len(rdf)
        S == WindowSum(rdf)
        Q == WindowSumSq(rdf)
    IN  IF S = 0 THEN TRUE
        ELSE IF n < 2 THEN FALSE
        ELSE 10000 * n * (n * Q - S * S) <= pct * pct * (n - 1) * S * S

\* a standard deviation that is 0, not NaN, for a window of one row (the fault
\* property C28 detects)
RatioBelowPopulationStd(rdf, pct) ==
    LET n == Len(rdf)
        S == WindowSum(rdf)
        Q == WindowSumSq(rdf)
    IN  IF S = 0 THEN TRUE
        ELSE IF n < 2 THEN TRUE
        ELSE 10000 * n * (n * Q - S * S) < pct * pct * (n - 1) * S * S

\* volatility_ratio < pct/100, where volatility_ratio is std_dev / avg_price, 0 when
\* avg_price is 0, and NaN (every comparison False) when the window has one row
RatioBelow(rdf, pct) ==
    LET n == Len(rdf)
        S == WindowSum(rdf)
        Q == WindowSumSq(rdf)
    IN  IF S = 0 THEN TRUE
        ELSE IF n < 2 THEN FALSE
        ELSE 10000 * n * (n * Q - S * S) < pct * pct * (n - 1) * S * S

\* the if/elif chain that sets confidence
ConfidenceLabel(rdf) ==
    IF RatioBelow(rdf, 5) THEN "~95%"
    ELSE IF RatioBelow(rdf, 10) THEN "~90%"
    ELSE IF RatioBelow(rdf, 20) THEN "~80%"
    ELSE IF RatioBelow(rdf, 30) THEN "~70%"
    ELSE IF RatioBelow(rdf, 40) THEN "~60%"
    ELSE IF RatioBelow(rdf, 50) THEN "~50%"
    ELSE "~40%"

\* the run of the user page shows the confidence interval of session s
IntervalShown(s) ==
    /\ IsUser(s)
    /\ AvailableKeys # {}
    /\ latest_forecast[s] # None
    /\ RollingDf(s) # <<>>

\* multipliers whose first three rows are (m - d, m, m + d) percent, in the order
\* given by first (1, 2 or 3: the position of the lowest), m percent afterwards
Progression(m, d, first) ==
    [n \in 1..HorizonRetailer |->
        IF n > 3 THEN m
        ELSE IF n = first THEN m - d
        ELSE IF n = (first % 3) + 1 THEN m
        ELSE m + d]

\* the windows the label is checked on: volatility ratios d/m on, just below and
\* between the thresholds
LabelProgressions ==
    {Progression(100, d, f) : d \in {0, 4, 5, 10, 19, 20, 30, 40}, f \in {1}}
    \cup {Progression(120, d, f) : d \in {59, 60}, f \in {1, 3}}

LabelGenInputs(prod) ==
    {GenInput("App", "Dairy", prod, 100, 100, m) : m \in LabelProgressions}

\* the retailer has generated two Dairy products on App.py and, on Retailer.py, a
\* product under Fruits at 0 days to expiry (every price 0), and has logged out
InitLabel ==
    /\ \E g1 \in LabelGenInputs("Milk"), g2 \in LabelGenInputs("Apple") :
          LET g0 == GenInput("Retailer", "Fruits", "Milk", 0, 100, Pattern(80, 80)) IN
          /\ forecasts = [k \in Keys |->
                 IF k = <<"Dairy", "Milk">> THEN AppRows(g1, 0)
                 ELSE IF k = <<"Dairy", "Apple">> THEN AppRows(g2, 0)
                 ELSE IF k = <<"Fruits", "Milk">> THEN RetailerRows(g0, 0)
                 ELSE <<>>]
          /\ generated_by = [k \in Keys |->
                 IF k = <<"Dairy", "Milk">> THEN <<g1>>
                 ELSE IF k = <<"Dairy", "Apple">> THEN <<g2>>
                 ELSE IF k = <<"Fruits", "Milk">> THEN <<g0>>
                 ELSE <<>>]
    /\ users = RegisteredUsers
    /\ user_cart = [u \in Usernames |-> <<>>]
    /\ today = 0
    /\ InitSessionState
    /\ logged_in = [s \in Sessions |-> FALSE]
    /\ username = [s \in Sessions |-> NoUser]
    /\ role = [s \in Sessions |-> NoRole]

\* the shopper looks at forecasts in two browser sessions
LabelNext ==
    \E s \in Sessions :
        \/ Login(s, "u1", "pw-u1", "User")
        \/ \E k \in Keys : Select(s, k[1], k[2])
        \/ GenerateForecast(s)

SpecLabel == InitLabel /\ [][LabelNext]_vars

-----------------------------------------------------------------------------
(* pages/Forecast.py: the insights on the best day *)

\* one bullet of the list: appended when its column is in the frame and its check
\* holds on day_data (a row of the frame; its fields are the frame's columns)
Bullet(day_data, column, holds, text) ==
    IF column \in DOMAIN day_data /\ holds THEN <<text>> ELSE <<>>

\* insights: the six checks in the order of the code, then the fallback; discount
\* is in percent and days_to_expiry in tenths of a day
Insights(day_data) ==
    LET Col(c) == IF c \in DOMAIN day_data THEN day_data[c] ELSE 0
        checks ==
            Bullet(day_data, "discount", Col("discount") > 20,
                   "Retailer is offering a high discount.")
            \o Bullet(day_data, "stock", Col("stock") > 150,
                      "Stock is in excess, likely causing markdowns.")
            \o Bullet(day_data, "days_to_expiry", Col("days_to_expiry") < 50,
                      "Product is nearing expiry.")
            \o Bullet(day_data, "rain", Col("rain") > 8,
                      "Rain may reduce foot traffic or demand.")
            \o Bullet(day_data, "temperature",
                      Col("temperature") < 10 \/ Col("temperature") > 35,
                      "Extreme temperatures predicted on that day.")
            \o Bullet(day_data, "holiday", Col("holiday") = 1,
                      "Holiday pricing behavior has been applied.")
    IN  IF checks = <<>> THEN <<"Standard price adjustment by the retailer.">> ELSE checks

\* the generations the insights are checked on: a product under Fruits on
\* Retailer.py, each covariate below and above its threshold
InsightGenInputs ==
    {[GenInput("Retailer", "Fruits", "Apple", d, 100, Pattern(80, 70))
        EXCEPT !.stock = st, !.discount = di, !.holidays = h,
               !.weather = [i \in 1..HorizonRetailer |-> [temp |-> t, rain |-> r]]] :
        d \in {40, 120}, st \in {100, 160}, di \in {20, 30}, h \in {{}, {0, 1, 2}},
        t \in {5, 30, 40}, r \in {0, 10}}

\* the retailer has generated the product, and another one on App.py, and has
\* logged out
InitInsight ==
    /\ \E g \in InsightGenInputs :
          LET g0 == GenInput("App", "Vegetables", "Apple", 100, 100, Pattern(80, 80)) IN
          /\ forecasts = [k \in Keys |->
                 IF k = <<"Fruits", "Apple">> THEN RetailerRows(g, 0)
                 ELSE IF k = <<"Vegetables", "Apple">> THEN AppRows(g0, 0)
                 ELSE <<>>]
          /\ generated_by = [k \in Keys |->
                 IF k = <<"Fruits", "Apple">> THEN <<g>>
                 ELSE IF k = <<"Vegetables", "Apple">> THEN <<g0>>
                 ELSE <<>>]
    /\ users = RegisteredUsers
    /\ user_cart = [u \in Usernames |-> <<>>]
    /\ today = 0
    /\ InitSessionState
    /\ logged_in = [s \in Sessions |-> FALSE]
    /\ username = [s \in Sessions |-> NoUser]
    /\ role = [s \in Sessions |-> NoRole]

SpecInsight == InitInsight /\ [][LabelNext]_vars

-----------------------------------------------------------------------------
(* pages/Forecast.py: the cart viewer's cart-wide best-buy day *)

\* concatenation of the frames in fs, in order (pd.concat along axis 0)
RECURSIVE Concat(_)
Concat(fs) == IF fs = <<>> THEN <<>> ELSE Head(fs) \o Concat(Tail(fs))

\* Series.sum() of the forecasted_price column
RECURSIVE SumPrices(_)
SumPrices(df) ==
    IF df = <<>> THEN 0 ELSE Head(df).forecasted_price + SumPrices(Tail(df))

\* the cart entries whose fetch_prediction is not empty, in cart order
ShownEntries(c) ==
    LET HasRows(e) == fetch_prediction(e[1], e[2]) # <<>> IN SelectSeq(c, HasRows)

\* a cart_df that keeps the unit prices (the fault property C13 detects)
CartDfUnitPrice(e) ==
    LET Positive(r) == r.forecasted_price > 0
        df == fetch_prediction(e[1], e[2])
    IN  IF IsDairy(e[1]) THEN SelectSeq(df, Positive) ELSE df

\* cart_df of entry e: its forecast, Dairy rows of price 0 dropped, prices times qty
CartDf(e) ==
    LET Positive(r) == r.forecasted_price > 0
        df == fetch_prediction(e[1], e[2])
        kept == IF IsDairy(e[1]) THEN SelectSeq(df, Positive) ELSE df
    IN  [i \in 1..Len(kept) |-> [kept[i] EXCEPT !.forecasted_price = @ * e[3]]]

\* valid_days of entry e: set(cart_df["forecast_day"])
ValidDays(e) == {CartDf(e)[i].forecast_day : i \in 1..Len(CartDf(e))}

\* total_df: the cart_df of the shown entries, concatenated
TotalDf(c) == Concat([i \in 1..Len(ShownEntries(c)) |-> CartDf(ShownEntries(c)[i])])

\* set.intersection(*product_days.values()), for a cart with a shown entry
CommonDays(c) ==
    {d \in ValidDays(ShownEntries(c)[1]) :
        \A i \in 1..Len(ShownEntries(c)) : d \in ValidDays(ShownEntries(c)[i])}

\* grouped.idxmin(): groupby sorts the days, idxmin takes the first minimum
GroupedIdxMin(df) ==
    LET days == {df[i].forecast_day : i \in 1..Len(df)}
        OnDay(d) == LET Is(r) == r.forecast_day = d IN SelectSeq(df, Is)
        grouped == [d \in days |-> SumPrices(OnDay(d))]
    IN  CHOOSE d \in days :
            /\ \A x \in days : grouped[d] <= grouped[x]
            /\ \A x \in days : x < d => grouped[x] > grouped[d]

\* what the cart viewer shows below the entries of cart c
BestBuyWindow(c) ==
    IF c = <<>> THEN [shown |-> "Your cart is empty."]
    ELSE IF TotalDf(c) = <<>> THEN [shown |-> "nothing"]
    ELSE IF ShownEntries(c) = <<>>
         THEN [shown |-> "No valid forecasted days for any product."]
    ELSE LET InCommon(r) == r.forecast_day \in CommonDays(c)
             filtered_df == SelectSeq(TotalDf(c), InCommon)
         IN  IF filtered_df = <<>>
             THEN [shown |-> "No common valid forecasted days found."]
             ELSE [shown |-> "Best Buy Window", best_day |-> GroupedIdxMin(filtered_df)]

\* the run of the user page reaches the cart viewer
ViewerRendered(s) == IsUser(s) /\ AvailableKeys # {}

\* the forecasts the cart viewer is checked on: Milk as Dairy on Retailer.py,
\* expired or two days from expiry, and Milk under Fruits on App.py at two patterns
ViewGenInputs ==
    {GenInput("Retailer", "Dairy", "Milk", 0, 100, Pattern(80, 50)),
     GenInput("Retailer", "Dairy", "Milk", 20, 100, Pattern(80, 50)),
     GenInput("App", "Fruits", "Milk", 100, 100, Pattern(80, 50)),
     GenInput("App", "Fruits", "Milk", 100, 100, Pattern(50, 80))}

\* the shopper fills the cart while the retailer regenerates and days pass
CartViewNext ==
    \/ Login("s1", "u1", "pw-u1", "User")
    \/ \E k \in Keys : Select("s1", k[1], k[2])
    \/ AddToCart("s1")
    \/ \E idx \in 1..Cardinality(Keys) : Increment("s1", idx)
    \/ \E idx \in 1..Cardinality(Keys) : Decrement("s1", idx)
    \/ \E g \in ViewGenInputs : PredictAndSaveApp("s2", g)
    \/ \E g \in ViewGenInputs : PredictAndSaveRetailer("s2", g)
    \/ Tick

SpecCartView == InitRetailerIn /\ [][CartViewNext]_vars

-----------------------------------------------------------------------------
(* Access: one browser session trying every login and every button *)

AccessGenInputs ==
    {GenInput("App", "Fruits", "Milk", 100, 100, Pattern(80, 50)),
     GenInput("Retailer", "Dairy", "Milk", 10, 100, Pattern(80, 50))}

AccessNext ==
    \E s \in {"s1"} :
        \/ \E u \in Usernames, pw \in {"pw-u1", "pw-r1"}, r \in Roles : Login(s, u, pw, r)
        \/ \E k \in Keys : Select(s, k[1], k[2])
        \/ GenerateForecast(s)
        \/ AddToCart(s)
        \/ Lock(s)
        \/ \E idx \in 1..Cardinality(Keys) : Increment(s, idx)
        \/ \E idx \in 1..Cardinality(Keys) : Decrement(s, idx)
        \/ Logout(s)
        \/ RetailerLogout(s)
        \/ \E g \in AccessGenInputs : PredictAndSaveApp(s, g)
        \/ \E g \in AccessGenInputs : PredictAndSaveRetailer(s, g)

SpecAccess == Init /\ [][AccessNext]_vars

-----------------------------------------------------------------------------
(* Accounts: sign-ups and logins at two browser sessions *)

\* what is typed into the sign-up and login forms
TypedUsernames == {"", "u1", "u2"}
TypedPasswords == {"", "abc", "pw-u2", "pw-x2"}
TypedNames == {"", "User Two", "Second"}

SignupNext ==
    \E s \in Sessions :
        \/ \E u \in TypedUsernames, pw \in TypedPasswords, name \in TypedNames,
              confirm \in TypedPasswords, r \in Roles :
              CreateAccount(s, u, pw, name, confirm, r)
        \/ \E u \in {"u1", "u2"}, pw \in {"pw-u1", "pw-u2", "pw-x2"}, r \in Roles :
              Login(s, u, pw, r)
        \/ Logout(s)
        \/ RetailerLogout(s)

SpecSignup == Init /\ [][SignupNext]_vars

-----------------------------------------------------------------------------
(* Forecast generation on its own: the retailer r1 at browser s2, both pages *)

\* the sidebar inputs and model answers the generation runs are checked on
GenPatterns == {Pattern(50, 130), Pattern(80, 80)}
GenMrps == {10, 100}

WideGenInputs ==
    {GenInput("Retailer", c, "Milk", d, m, pat) :
        c \in {"Dairy", "Fruits"}, d \in {0, 25, 100, 120, 130}, m \in GenMrps,
        pat \in GenPatterns}
    \cup {GenInput("App", "Dairy", "Milk", d, m, pat) :
             d \in {0, 25, 100}, m \in GenMrps, pat \in GenPatterns}
    \cup {GenInput("App", "Fruits", "Milk", d, m, pat) :
             d \in {100, 400}, m \in GenMrps, pat \in GenPatterns}

GenNext ==
    \/ \E g \in WideGenInputs : PredictAndSaveApp("s2", g)
    \/ \E g \in WideGenInputs : PredictAndSaveRetailer("s2", g)
    \/ Tick

SpecGen == InitRetailerIn /\ [][GenNext]_vars

-----------------------------------------------------------------------------
(* Failing generations: the retailer r1 at browser s2, both pages *)

\* generations that reach the save
GoodGenInputs ==
    {GenInput("Retailer", c, "Milk", d, 100, pat) :
        c \in {"Dairy", "Fruits"}, d \in {25, 100}, pat \in GenPatterns}
    \cup {GenInput("App", "Dairy", "Milk", 25, 100, pat) : pat \in GenPatterns}
    \cup {GenInput("App", "Fruits", "Milk", 100, 100, pat) : pat \in GenPatterns}

\* what goes wrong on the way to the save: the city is not in the state, the weather
\* provider fails or returns too few days, the model or the explainer raises
GenFaults(g) ==
    {[g EXCEPT !.weather_ok = FALSE],
     [g EXCEPT !.weather = IF g.page = "App" THEN Weather(2) ELSE Weather(HorizonRetailer - 1)],
     [g EXCEPT !.model_ok = FALSE]}
    \cup (IF g.page = "Retailer" THEN {[g EXCEPT !.city_ok = FALSE]} ELSE {})

FailGenInputs == GoodGenInputs \cup UNION {GenFaults(g) : g \in GoodGenInputs}

FailNext ==
    \/ \E g \in FailGenInputs : PredictAndSaveApp("s2", g)
    \/ \E g \in FailGenInputs : PredictAndSaveRetailer("s2", g)
    \/ Tick

SpecFail == InitRetailerIn /\ [][FailNext]_vars

-----------------------------------------------------------------------------
(* Holiday provider failures: the retailer r1 at browser s2, both pages *)

\* the holiday provider answers with a list of holidays, or fails
HolidayAnswer(g, ok, hs) == [g EXCEPT !.holiday_ok = ok, !.holidays = hs]

HolidayGenInputs ==
    {HolidayAnswer(g, ok, hs) :
        g \in {GenInput("Retailer", "Dairy", "Milk", 100, 100, Pattern(80, 80)),
               GenInput("Retailer", "Fruits", "Milk", 100, 100, Pattern(80, 80)),
               GenInput("App", "Dairy", "Milk", 25, 100, Pattern(80, 80)),
               GenInput("App", "Fruits", "Milk", 100, 100, Pattern(80, 80))},
        ok \in BOOLEAN, hs \in {{}, {0, 1, 2}}}

HolidayNext ==
    \/ \E g \in HolidayGenInputs : PredictAndSaveApp("s2", g)
    \/ \E g \in HolidayGenInputs : PredictAndSaveRetailer("s2", g)
    \/ Tick

SpecHoliday == InitRetailerIn /\ [][HolidayNext]_vars

-----------------------------------------------------------------------------
(* Two devices: the shopper u1 logged in at both browser sessions *)

\* the retailer has generated Milk under Fruits on App.py and has logged out
InitDevices ==
    /\ LET g == GenInput("App", "Fruits", "Milk", 100, 100, Pattern(80, 50)) IN
       /\ forecasts = [k \in Keys |-> IF k = <<"Fruits", "Milk">> THEN AppRows(g, 0) ELSE <<>>]
       /\ generated_by = [k \in Keys |-> IF k = <<"Fruits", "Milk">> THEN <<g>> ELSE <<>>]
    /\ users = RegisteredUsers
    /\ user_cart = [u \in Usernames |-> <<>>]
    /\ today = 0
    /\ InitSessionState
    /\ logged_in = [s \in Sessions |-> FALSE]
    /\ username = [s \in Sessions |-> NoUser]
    /\ role = [s \in Sessions |-> NoRole]

DevicesNext ==
    \E s \in Sessions :
        \/ Login(s, "u1", "pw-u1", "User")
        \/ \E k \in Keys : Select(s, k[1], k[2])
        \/ GenerateForecast(s)
        \/ AddToCart(s)
        \/ Lock(s)
        \/ \E idx \in 1..Len(cart[s]) : Increment(s, idx)
        \/ \E idx \in 1..Len(cart[s]) : Decrement(s, idx)
        \/ Logout(s)

SpecDevices == InitDevices /\ [][DevicesNext]_vars

-----------------------------------------------------------------------------
(* A shared browser: the shoppers u1 and u2 take turns at browser s1, and u2 *)
(* also shops at browser s2                                                  *)

\* u2 has signed up as a User through "Create Account"
SecondUser == [username |-> "u2", password |-> "pw-u2", name |-> "User Two", role |-> "User"]

\* who logs in at which browser
SharedLogins == {<<"s1", "u1", "pw-u1">>, <<"s1", "u2", "pw-u2">>, <<"s2", "u2", "pw-u2">>}

InitShared ==
    /\ LET g == GenInput("App", "Fruits", "Milk", 100, 100, Pattern(80, 50)) IN
       /\ forecasts = [k \in Keys |-> IF k = <<"Fruits", "Milk">> THEN AppRows(g, 0) ELSE <<>>]
       /\ generated_by = [k \in Keys |-> IF k = <<"Fruits", "Milk">> THEN <<g>> ELSE <<>>]
    /\ users = RegisteredUsers \cup {SecondUser}
    /\ user_cart = [u \in Usernames |-> <<>>]
    /\ today = 0
    /\ InitSessionState
    /\ logged_in = [s \in Sessions |-> FALSE]
    /\ username = [s \in Sessions |-> NoUser]
    /\ role = [s \in Sessions |-> NoRole]

SharedNext ==
    \/ \E l \in SharedLogins : Login(l[1], l[2], l[3], "User")
    \/ \E s \in Sessions :
          \/ \E k \in Keys : Select(s, k[1], k[2])
          \/ GenerateForecast(s)
          \/ AddToCart(s)
          \/ Lock(s)
          \/ \E idx \in 1..Len(cart[s]) : Increment(s, idx)
          \/ \E idx \in 1..Len(cart[s]) : Decrement(s, idx)
          \/ Logout(s)

SpecShared == InitShared /\ [][SharedNext]_vars

-----------------------------------------------------------------------------
(* The confidence label at the end of a forecast's horizon *)

\* std() with ddof = 1 is NaN for fewer than two rows, and so are ci_low and ci_high
IntervalDefined(rdf) == Len(rdf) >= 2

\* the days the shopper looks at forecasts generated on day 0: that day, and the last
\* two days of the Retailer.py horizon
HorizonEndDays == {0, HorizonRetailer - 2, HorizonRetailer - 1}

\* the retailer generated on day 0, on Retailer.py, Milk under Fruits at 5.0 days to
\* expiry (price 0 from the sixth day on), Apple under Fruits at 12.0 days to expiry
\* and Milk under Dairy at 1.0 day to expiry (price 0 from the second day on)
InitHorizonEnd ==
    /\ LET g1 == GenInput("Retailer", "Fruits", "Milk", 50, 100, Pattern(80, 80))
           g2 == GenInput("Retailer", "Fruits", "Apple", 120, 100, Pattern(80, 80))
           g3 == GenInput("Retailer", "Dairy", "Milk", 10, 100, Pattern(80, 80))
       IN  /\ forecasts = [k \in Keys |->
                  IF k = <<"Fruits", "Milk">> THEN RetailerRows(g1, 0)
                  ELSE IF k = <<"Fruits", "Apple">> THEN RetailerRows(g2, 0)
                  ELSE IF k = <<"Dairy", "Milk">> THEN RetailerRows(g3, 0)
                  ELSE <<>>]
           /\ generated_by = [k \in Keys |->
                  IF k = <<"Fruits", "Milk">> THEN <<g1>>
                  ELSE IF k = <<"Fruits", "Apple">> THEN <<g2>>
                  ELSE IF k = <<"Dairy", "Milk">> THEN <<g3>>
                  ELSE <<>>]
    /\ users = RegisteredUsers
    /\ user_cart = [u \in Usernames |-> <<>>]
    /\ today \in HorizonEndDays
    /\ InitSessionState
    /\ logged_in = [s \in Sessions |-> FALSE]
    /\ username = [s \in Sessions |-> NoUser]
    /\ role = [s \in Sessions |-> NoRole]

SpecHorizonEnd == InitHorizonEnd /\ [][LabelNext]_vars

-----------------------------------------------------------------------------
(* Properties of the cart workflow (Spec): the shopper u1 at browser s1 *)

TheSession == "s1"
TheUser == "u1"

\* the session holds a cart: a user is logged in and the page has hydrated the state
SessionLive == IsUser(TheSession) /\ has_cart[TheSession]

\* the quantity the session cart holds of pair k, 0 when it holds none
Qty(c, k) ==
    IF InCart(c, k) THEN c[CHOOSE i \in 1..Len(c) : EntryKey(c[i]) = k][3] ELSE 0

\* the rows of the persisted cart for pair k
RowsOf(rows, k) == {i \in 1..Len(rows) : RowKey(rows[i]) = k}

\* the (locked_date, locked_price) the persisted cart records for pair k, NULL if none
PersistedLock(rows, k) ==
    IF \E i \in RowsOf(rows, k) : rows[i].locked_date # NULL \/ rows[i].locked_price # NULL
    THEN LET i == CHOOSE j \in RowsOf(rows, k) :
                      rows[j].locked_date # NULL \/ rows[j].locked_price # NULL
         IN  <<rows[i].locked_date, rows[i].locked_price>>
    ELSE NULL

\* the (locked_date, locked_price) of pair k as the shopper's entry records it: in
\* the session while it holds a cart, in the persisted cart otherwise
EntryLock(live, lp, rows, k) ==
    IF live
    THEN (IF k \in DOMAIN lp THEN <<<<Strftime(lp[k][1])>>, <<lp[k][2]>>>> ELSE NULL)
    ELSE PersistedLock(rows, k)

\* this step removes the entry of pair k, which had quantity 1
RemovedAtOne(k) ==
    /\ SessionLive
    /\ Qty(cart[TheSession], k) = 1
    /\ ~InCart(cart'[TheSession], k)

\* this step is the minus button on the entry of pair k at quantity 1
RemovalStep(k) ==
    /\ lastOp' # lastOp
    /\ lastOp'.op = "remove" /\ lastOp'.s = TheSession /\ lastOp'.key = k

\* this step is Add to Cart for pair k
AddStep(k) ==
    /\ lastOp' # lastOp
    /\ lastOp'.op = "add" /\ lastOp'.s = TheSession /\ lastOp'.key = k

\* C1, in the session: a recorded lock stays in locked_prices, with the same
\* timestamp and price, for as long as the session holds the cart, unless the step
\* is the minus button at quantity 1 on that entry
C1_SessionLockKept ==
    \A k \in Keys :
        (SessionLive /\ SessionLive' /\ k \in DOMAIN locked_prices[TheSession])
        => \/ /\ k \in DOMAIN locked_prices'[TheSession]
              /\ locked_prices'[TheSession][k] = locked_prices[TheSession][k]
           \/ RemovedAtOne(k) /\ RemovalStep(k)

\* C1, across logout and login: the locked_date and locked_price of the shopper's
\* entry, read from the session or (logged out) from the persisted cart, are the
\* same after every step, unless the step is the minus button at quantity 1 on it
C1_EntryLockKept ==
    \A k \in Keys :
        LET before == EntryLock(SessionLive, locked_prices[TheSession], user_cart[TheUser], k)
            after == EntryLock(SessionLive', locked_prices'[TheSession], user_cart'[TheUser], k)
        IN  before # NULL => (after = before \/ (RemovedAtOne(k) /\ RemovalStep(k)))

\* C1, in the table: the persisted lock of an entry changes with no step but the
\* minus button at quantity 1 on it
C1_PersistedLockKept ==
    \A k \in Keys :
        PersistedLock(user_cart[TheUser], k) # NULL
        => \/ PersistedLock(user_cart'[TheUser], k) = PersistedLock(user_cart[TheUser], k)
           \/ RemovedAtOne(k) /\ RemovalStep(k)

\* C1: once a lock on a cart entry has recorded (locked_date, locked_price), every
\* later add, Generate Forecast, increment, non-removing decrement, lock attempt,
\* regeneration, logout and re-login leaves them present and unchanged; only the
\* decrement that removes the entry clears them
C1_LockMonotone ==
    [][C1_SessionLockKept /\ C1_EntryLockKept /\ C1_PersistedLockKept]_vars

\* C1 witness: a locked entry whose quantity was changed after the lock, while the
\* retailer has regenerated the forecast at another price for the locked day
C1_Witness ==
    /\ SessionLive
    /\ \E k \in DOMAIN locked_prices[TheSession] :
          /\ lock_status[TheSession][k]
          /\ Qty(cart[TheSession], k) = MaxQty
          /\ \E i \in 1..Len(forecasts[k]) :
                /\ ToDatetime(forecasts[k][i].forecast_day) = locked_prices[TheSession][k][1]
                /\ forecasts[k][i].forecasted_price # locked_prices[TheSession][k][2]

\* C2: the minus button on an entry of quantity 1 removes the entry and its lock
\* from the session and from the persisted cart, and Add to Cart of a pair always
\* yields an entry without locked_date and locked_price, in the session and in the
\* persisted cart, whatever was locked before
C2_RemoveThenFresh ==
    [][\A k \in Keys :
          /\ RemovalStep(k) =>
                /\ ~InCart(cart'[TheSession], k)
                /\ k \notin DOMAIN locked_prices'[TheSession]
                /\ RowsOf(user_cart'[TheUser], k) = {}
          /\ AddStep(k) =>
                /\ Qty(cart'[TheSession], k) >= 1
                /\ k \notin DOMAIN locked_prices'[TheSession]
                /\ RowsOf(user_cart'[TheUser], k) # {}
                /\ PersistedLock(user_cart'[TheUser], k) = NULL]_vars

\* C2 witness: the pair whose locked entry the last handler removed is in the cart
\* again, added by this handler
C2_Witness ==
    /\ lastOp.op = "add" /\ lastOp.wasLocked
    /\ InCart(cart[TheSession], lastOp.key)
    /\ lastOp.key \notin DOMAIN locked_prices[TheSession]

\* this step records a lock for pair k that the session did not hold
LockWritten(k) ==
    /\ SessionLive /\ SessionLive'
    /\ k \notin DOMAIN locked_prices[TheSession]
    /\ k \in DOMAIN locked_prices'[TheSession]

\* the displayed pair k is in the cart, has no lock, and its window is not empty
Lockable(k) ==
    /\ latest_forecast[TheSession] # None
    /\ k = <<category[TheSession], latest_product[TheSession]>>
    /\ Qty(cart[TheSession], k) >= 1
    /\ k \notin DOMAIN locked_prices[TheSession]
    /\ PersistedLock(user_cart[TheUser], k) = NULL
    /\ Len(RollingDf(TheSession)) >= 1

\* C3: lock data is written, to the session or to the persisted cart, only by a
\* step that starts where the displayed pair is in the cart, has no recorded lock
\* and a non-empty window, and only for that pair
C3_LockOnlyWhenLockable ==
    [][\A k \in Keys :
          /\ LockWritten(k) => Lockable(k)
          /\ (PersistedLock(user_cart[TheUser], k) = NULL
              /\ PersistedLock(user_cart'[TheUser], k) # NULL) => Lockable(k)]_vars

\* C3 witness: the displayed pair was locked at the window's best row
C3_Witness ==
    /\ SessionLive
    /\ LockKey(TheSession) \in DOMAIN locked_prices[TheSession]
    /\ ~lock_status[TheSession][LockKey(TheSession)]
    /\ PersistedLock(user_cart[TheUser], LockKey(TheSession)) # NULL
    /\ Len(RollingDf(TheSession)) >= 1

\* C4: the session cart and the persisted cart of a username hold at most one
\* entry per (category, product)
C4_OneEntryPerProduct ==
    /\ \A s \in Sessions : \A i, j \in 1..Len(cart[s]) :
          EntryKey(cart[s][i]) = EntryKey(cart[s][j]) => i = j
    /\ \A u \in Usernames : \A i, j \in 1..Len(user_cart[u]) :
          RowKey(user_cart[u][i]) = RowKey(user_cart[u][j]) => i = j

\* C4 witness: two products in the cart and in the table, one incremented, one
\* locked, the second added by the last handler
C4_Witness ==
    /\ SessionLive
    /\ Len(cart[TheSession]) = 2 /\ Len(user_cart[TheUser]) = 2
    /\ \E i \in 1..2 : cart[TheSession][i][3] = MaxQty
    /\ \E i \in 1..2 : ~lock_status[TheSession][EntryKey(cart[TheSession][i])]
    /\ lastOp.op = "add"

\* every entry of the session carts and every persisted row has quantity 1 or more
QuantitiesPositive ==
    /\ \A s \in Sessions : \A i \in 1..Len(cart[s]) : cart[s][i][3] >= 1
    /\ \A u \in Usernames : \A i \in 1..Len(user_cart[u]) : user_cart[u][i].quantity >= 1

\* the quantity the persisted cart holds of pair k, 0 when it holds none
PersistedQty(rows, k) ==
    IF RowsOf(rows, k) = {} THEN 0 ELSE rows[CHOOSE i \in RowsOf(rows, k) : TRUE].quantity

\* one step on the quantity q of an entry (0: no entry): an add creates it with
\* quantity 1, the other steps keep it, add 1 to it, subtract 1 from it when it is
\* above 1, or remove the entry when it is 1
QuantityStep(k, q, r) ==
    /\ AddStep(k) => q = 0 /\ r = InitialQty
    /\ RemovalStep(k) => q = 1 /\ r = 0
    /\ ~AddStep(k) =>
          \/ r = q
          \/ q >= 1 /\ r = q + 1
          \/ q > 1 /\ r = q - 1
          \/ q = 1 /\ r = 0 /\ RemovalStep(k)

\* C5: every cart entry, in the session and in the persisted table, has quantity
\* >= 1 in every reachable state; add creates it with quantity 1, increment adds 1,
\* decrement subtracts 1 above quantity 1 and removes the entry at quantity 1
C5_QuantityAtLeastOne ==
    /\ []QuantitiesPositive
    /\ [][\A k \in Keys :
             /\ (SessionLive /\ SessionLive')
                => QuantityStep(k, Qty(cart[TheSession], k), Qty(cart'[TheSession], k))
             /\ QuantityStep(k, PersistedQty(user_cart[TheUser], k),
                             PersistedQty(user_cart'[TheUser], k))]_vars

\* C5 witness: an entry that was incremented and decremented is back at quantity 1,
\* next to an entry at the largest quantity, in the session and in the table
C5_Witness ==
    /\ SessionLive
    /\ \E i, j \in 1..Len(cart[TheSession]) :
          /\ cart[TheSession][i][3] = 1
          /\ EntryKey(cart[TheSession][i]) \in DOMAIN locked_prices[TheSession]
          /\ lock_status[TheSession][EntryKey(cart[TheSession][i])]
          /\ cart[TheSession][j][3] = MaxQty
          /\ user_cart[TheUser][i].quantity = 1
          /\ user_cart[TheUser][j].quantity = MaxQty

\* the persisted rows are the entries of cart c, in order, each with the date and
\* the price of its lock in lp, or with both NULL
Mirrors(rows, c, lp) ==
    /\ Len(rows) = Len(c)
    /\ \A i \in 1..Len(c) :
          /\ <<rows[i].category, rows[i].product, rows[i].quantity>> = c[i]
          /\ IF EntryKey(c[i]) \in DOMAIN lp
             THEN /\ rows[i].locked_date = <<lp[EntryKey(c[i])][1] \div 24>>
                  /\ lp[EntryKey(c[i])][1] % 24 = 0
                  /\ rows[i].locked_price = <<lp[EntryKey(c[i])][2]>>
             ELSE rows[i].locked_date = NULL /\ rows[i].locked_price = NULL

\* the step is the user page's logout
LogoutStep == IsUser(TheSession) /\ ~logged_in'[TheSession]

\* C6: after each cart mutation (add, increment, decrement, lock), and in every
\* other state of a session that holds a cart, the persisted rows of the session's
\* username are exactly the session's entries with their quantities and lock data;
\* after logout they are exactly the entries the session held
C6_PersistedMirrorsSession ==
    /\ [](SessionLive =>
            Mirrors(user_cart[username[TheSession]], cart[TheSession],
                    locked_prices[TheSession]))
    /\ [][LogoutStep =>
            Mirrors(user_cart'[username[TheSession]], cart[TheSession],
                    locked_prices[TheSession])]_vars

\* C6 witness: logged out, the table holds two rows, one of them locked, one of
\* them with the largest quantity
C6_Witness ==
    /\ ~logged_in[TheSession]
    /\ Len(user_cart[TheUser]) = 2
    /\ \E i \in 1..2 : user_cart[TheUser][i].locked_price # NULL
    /\ \E i \in 1..2 : user_cart[TheUser][i].locked_price = NULL
    /\ \E i \in 1..2 : user_cart[TheUser][i].quantity = MaxQty

\* C7: each cart entry is UNLOCKED (locked_date and locked_price both absent) or
\* LOCKED (both present), in the session and in the persisted table, and lock data
\* exists only for (category, product) pairs that are in the cart
C7_LockStateWellFormed ==
    /\ \A u \in Usernames : \A i \in 1..Len(user_cart[u]) :
          (user_cart[u][i].locked_date = NULL) <=> (user_cart[u][i].locked_price = NULL)
    /\ \A s \in Sessions :
          /\ \A k \in DOMAIN locked_prices[s] : Len(locked_prices[s][k]) = 2
          /\ DOMAIN locked_prices[s] \subseteq CartKeys(cart[s])
          /\ \A k \in DOMAIN lock_status[s] :
                ~lock_status[s][k] => k \in DOMAIN locked_prices[s]

\* C7 witness: a locked entry next to an unlocked one, which was added again right
\* after its locked entry had been removed
C7_Witness ==
    /\ SessionLive
    /\ Len(cart[TheSession]) = 2
    /\ \E i \in 1..2 : EntryKey(cart[TheSession][i]) \in DOMAIN locked_prices[TheSession]
    /\ \E i \in 1..2 : EntryKey(cart[TheSession][i]) \notin DOMAIN locked_prices[TheSession]
    /\ \E i \in 1..2 : user_cart[TheUser][i].locked_date # NULL
    /\ lastOp.op = "add" /\ lastOp.wasLocked

\* the forecast the session displays is the forecast of a Dairy product
DisplaysDairy(s) ==
    /\ IsUser(s)
    /\ AvailableKeys # {}
    /\ latest_forecast[s] # None
    /\ \A i \in 1..Len(latest_forecast[s]) : latest_forecast[s][i].category = "Dairy"

\* C8: for a Dairy product, forecast rows with forecasted_price = 0 are never part
\* of the 3-day window and never the best-buy day, whatever the order of category
\* selection, product selection and Generate Forecast before the display
C8_DairyZeroRowsExcluded ==
    \A s \in Sessions :
        DisplaysDairy(s) =>
            /\ \A i \in 1..Len(RollingDf(s)) : RollingDf(s)[i].forecasted_price > 0
            /\ RollingDf(s) # <<>> => BestRow(RollingDf(s)).forecasted_price > 0

-----------------------------------------------------------------------------
(* Properties of the generated rows (SpecGen) *)

\* the persisted rows of pair k, each with the MRP of the generation that wrote it
GeneratedRows(k) ==
    {[row |-> forecasts[k][i], mrp |-> generated_by[k][1].mrp, page |-> generated_by[k][1].page] :
        i \in 1..Len(forecasts[k])}

\* a Dairy row past expiry: its days_to_expiry for that day is 0 or less
DairyPastExpiry(r) == r.category = "Dairy" /\ r.days_to_expiry <= 0

\* C9: every persisted forecast row that is not a Dairy row past expiry has
\* forecasted_price >= 0.60 x mrp, whichever retailer page generated it
C9_PriceFloor ==
    \A k \in Keys : \A x \in GeneratedRows(k) :
        ~DairyPastExpiry(x.row) => x.row.forecasted_price >= MinMultiplier * x.mrp

\* C10: every persisted Dairy row whose days_to_expiry for that day is <= 0 has
\* forecasted_price exactly 0, whichever retailer page generated it
C10_DairyExpiredIsZero ==
    \A k \in Keys : \A x \in GeneratedRows(k) :
        DairyPastExpiry(x.row) => x.row.forecasted_price = 0

\* C11: every persisted non-dairy forecast row has forecasted_price <= mrp, for
\* every model multiplier, whichever retailer page generated it
C11_NonDairyCappedAtMrp ==
    \A k \in Keys : \A x \in GeneratedRows(k) :
        x.row.category # "Dairy" => x.row.forecasted_price <= 100 * x.mrp

\* C11 witness: App.py persisted a non-dairy row whose multiplier was above 1, at
\* exactly the MRP
C11_Witness ==
    \E k \in Keys : \E i \in 1..Len(forecasts[k]) :
        /\ forecasts[k][i].category # "Dairy"
        /\ generated_by[k][1].page = "App"
        /\ generated_by[k][1].mults[i] > 100
        /\ forecasts[k][i].forecasted_price = 100 * generated_by[k][1].mrp

-----------------------------------------------------------------------------
(* Properties of the cart viewer (SpecCartView) *)

\* the forecast row that counts for the cart entry e on day d (a timestamp), if any:
\* the rows of its pair in the table, Dairy rows of price 0 not counted
RowsOn(e, d) ==
    {i \in 1..Len(forecasts[EntryKey(e)]) :
        /\ forecasts[EntryKey(e)][i].forecast_day * 24 = d
        /\ (e[1] = "Dairy" => forecasts[EntryKey(e)][i].forecasted_price > 0)}

\* the days of the model's calendar, as timestamps
CalendarDays == {24 * d : d \in 0..(MaxDay + HorizonRetailer)}

\* the days on which every entry of cart c has a forecast row that counts
DaysCommonTo(c) == {d \in CalendarDays : \A i \in 1..Len(c) : RowsOn(c[i], d) # {}}

\* C12: whenever the cart viewer reports a cart-wide best-buy day, that day has a
\* forecast row for every product in the cart; if no day is common to all cart
\* products, no day is reported and the 'no common valid day' notice is shown
C12_BestDayIsCommonOrNotice ==
    ViewerRendered(TheSession) /\ cart[TheSession] # <<>> =>
        LET report == BestBuyWindow(cart[TheSession])
            common == DaysCommonTo(cart[TheSession])
        IN  /\ report.shown = "Best Buy Window" => report.best_day \in common
            /\ common = {} => report.shown = "No common valid forecasted days found."

\* sum over the entries of cart c, from entry i on, of price times quantity on day d
RECURSIVE CartTotalFrom(_, _, _)
CartTotalFrom(c, i, d) ==
    IF i > Len(c) THEN 0
    ELSE LET r == forecasts[EntryKey(c[i])][CHOOSE j \in RowsOn(c[i], d) : TRUE]
         IN  r.forecasted_price * c[i][3] + CartTotalFrom(c, i + 1, d)

\* the earliest of the common days of cart c with the least total of price x quantity
CheapestCommonDay(c) ==
    CHOOSE d \in DaysCommonTo(c) :
        \A x \in DaysCommonTo(c) :
            \/ CartTotalFrom(c, 1, d) < CartTotalFrom(c, 1, x)
            \/ CartTotalFrom(c, 1, d) = CartTotalFrom(c, 1, x) /\ d <= x

\* C13: the reported cart-wide best-buy day is the common day that minimises the
\* sum over all cart products of forecasted_price x quantity, the earliest on ties
C13_BestDayMinimisesTotal ==
    ViewerRendered(TheSession) /\ cart[TheSession] # <<>> =>
        LET report == BestBuyWindow(cart[TheSession]) IN
        report.shown = "Best Buy Window" =>
            report.best_day = CheapestCommonDay(cart[TheSession])

\* C13 witness: two products with two common days; the reported day is the later
\* one, and it would be the earlier one if the quantities were all 1
C13_Witness ==
    /\ ViewerRendered(TheSession)
    /\ Len(cart[TheSession]) = 2
    /\ Cardinality(DaysCommonTo(cart[TheSession])) >= 2
    /\ BestBuyWindow(cart[TheSession]).shown = "Best Buy Window"
    /\ \E d \in DaysCommonTo(cart[TheSession]) :
          /\ d < BestBuyWindow(cart[TheSession]).best_day
          /\ d = CheapestCommonDay([i \in 1..2 |->
                     <<cart[TheSession][i][1], cart[TheSession][i][2], 1>>])

-----------------------------------------------------------------------------
(* Properties of the confidence label (SpecLabel) *)

\* the prices of a window, in rupees
WindowPrices(rdf) == {rdf[i].forecasted_price \div 100 : i \in 1..Len(rdf)}
HighestOf(S) == CHOOSE x \in S : \A y \in S : y <= x
LowestOf(S) == CHOOSE x \in S : \A y \in S : x <= y

\* the window holds three rows of prices m - d, m, m + d in some order, with m > 0:
\* its mean is m and its standard deviation (ddof = 1) is d, so sigma/mu = d/m
IsSpread(rdf, m, d) ==
    /\ Len(rdf) = 3 /\ m > 0 /\ d >= 0
    /\ WindowPrices(rdf) = {m - d, m, m + d}
    /\ \A i \in 1..3 : rdf[i].forecasted_price % 100 = 0
    /\ (rdf[1].forecasted_price + rdf[2].forecasted_price + rdf[3].forecasted_price)
         = 300 * m

\* the band of the table for the ratio d/m: the first threshold the ratio is
\* strictly below gives the confidence, in percent
Thresholds == <<<<5, 95>>, <<10, 90>>, <<20, 80>>, <<30, 70>>, <<40, 60>>, <<50, 50>>>>
BandOf(d, m) ==
    IF \E i \in 1..Len(Thresholds) : 100 * d < Thresholds[i][1] * m
    THEN Thresholds[CHOOSE i \in 1..Len(Thresholds) :
                       /\ 100 * d < Thresholds[i][1] * m
                       /\ \A j \in 1..(i - 1) : 100 * d >= Thresholds[j][1] * m][2]
    ELSE 40

\* the percentage a label names
PercentOf(label) ==
    CASE label = "~95%" -> 95 [] label = "~90%" -> 90 [] label = "~80%" -> 80
      [] label = "~70%" -> 70 [] label = "~60%" -> 60 [] label = "~50%" -> 50
      [] label = "~40%" -> 40

\* the spread d and the mean m of a window of three rows
SpreadOf(rdf) == HighestOf(WindowPrices(rdf)) - WindowSum(rdf) \div 3
MeanOf(rdf) == WindowSum(rdf) \div 3

\* C14: the confidence label is the band of r = sigma/mu in the table (r = 0 when
\* mu = 0), a boundary value falling in the lower-confidence band, and of two
\* displayed windows the one with the larger r never has the higher confidence
C14_LabelFollowsTable ==
    \A s \in Sessions : IntervalShown(s) =>
        LET w == RollingDf(s) IN
        /\ IsSpread(w, MeanOf(w), SpreadOf(w)) =>
              PercentOf(ConfidenceLabel(w)) = BandOf(SpreadOf(w), MeanOf(w))
        /\ WindowPrices(w) = {0} => ConfidenceLabel(w) = "~95%"
        /\ \A t \in Sessions :
              LET v == RollingDf(t) IN
              (/\ IntervalShown(t)
               /\ IsSpread(w, MeanOf(w), SpreadOf(w))
               /\ IsSpread(v, MeanOf(v), SpreadOf(v))
               /\ SpreadOf(w) * MeanOf(v) <= SpreadOf(v) * MeanOf(w))
              => PercentOf(ConfidenceLabel(w)) >= PercentOf(ConfidenceLabel(v))

\* C14 witness: one session shows a window with r exactly 0.05, labelled ~90%, the
\* other a window with r exactly 0.50, labelled ~40%
C14_Witness ==
    /\ IntervalShown("s1") /\ IntervalShown("s2")
    /\ IsSpread(RollingDf("s1"), 100, 5)
    /\ ConfidenceLabel(RollingDf("s1")) = "~90%"
    /\ IsSpread(RollingDf("s2"), 120, 60)
    /\ ConfidenceLabel(RollingDf("s2")) = "~40%"

\* the page of session s renders the Forecast Display section
DisplayRendered(s) == IsUser(s) /\ AvailableKeys # {} /\ latest_forecast[s] # None

\* the rows of the displayed product that count for its window: its forecast rows
\* from today on, a Dairy product's rows of price 0 left out
CountedRows(s) ==
    {i \in 1..Len(latest_forecast[s]) :
        /\ latest_forecast[s][i].forecast_day >= 24 * today
        /\ (latest_forecast[s][i].category = "Dairy"
              => latest_forecast[s][i].forecasted_price > 0)}

\* the first three of them in ascending date order, or fewer if fewer exist
WindowRows(s) ==
    {i \in CountedRows(s) :
        Cardinality({j \in CountedRows(s) :
            latest_forecast[s][j].forecast_day < latest_forecast[s][i].forecast_day}) < 3}

\* C15: the per-product best-buy day is the day of minimum forecasted_price within
\* the window, the window being the first 3 (or fewer, if fewer exist) forecast
\* rows in ascending date order with forecast_day >= today; among several window
\* days of minimum price the earliest is chosen
C15_BestDayIsWindowMinimum ==
    \A s \in Sessions : DisplayRendered(s) =>
        LET df == latest_forecast[s] IN
        /\ RollingDf(s) = <<>> <=> WindowRows(s) = {}
        /\ RollingDf(s) # <<>> =>
              \E i \in WindowRows(s) :
                 /\ BestRow(RollingDf(s)).forecast_day = df[i].forecast_day
                 /\ \A j \in WindowRows(s) :
                       \/ df[i].forecasted_price < df[j].forecasted_price
                       \/ /\ df[i].forecasted_price = df[j].forecasted_price
                          /\ df[i].forecast_day <= df[j].forecast_day

-----------------------------------------------------------------------------
(* Properties of the insights (SpecInsight) *)

\* the checks of the specification on the stored covariates of row r, in their
\* fixed order: <<holds, bullet>> pairs
InsightChecks(r) ==
    <<<<r.discount > 20, "Retailer is offering a high discount.">>,
      <<r.stock > 150, "Stock is in excess, likely causing markdowns.">>,
      <<r.days_to_expiry < 50, "Product is nearing expiry.">>,
      <<r.rain > 8, "Rain may reduce foot traffic or demand.">>,
      <<r.temp < 10 \/ r.temp > 35, "Extreme temperatures predicted on that day.">>,
      <<r.holiday = 1, "Holiday pricing behavior has been applied.">>>>

\* C16: the insights shown for the best day are exactly, in the fixed order, one
\* bullet for each satisfied check (discount > 0.2, stock > 150, days_to_expiry < 5,
\* rain > 8, temperature below 10 or above 35, holiday = 1) on the best day's stored
\* covariates, and the fallback insight is shown if and only if no check holds
C16_InsightsMatchChecks ==
    \A s \in Sessions : IntervalShown(s) =>
        LET best == BestRow(RollingDf(s))
            Holds(c) == c[1]
            expected == SelectSeq(InsightChecks(best), Holds)
            shown == Insights(best)
        IN  IF expected = <<>>
            THEN shown = <<"Standard price adjustment by the retailer.">>
            ELSE shown = [i \in 1..Len(expected) |-> expected[i][2]]

-----------------------------------------------------------------------------
(* Properties of access control (SpecAccess) *)

\* session s is logged in with role r
HoldsRole(s, r) == logged_in[s] /\ role[s] = r

\* this step changes the cart state of session s other than by hydrating it at a
\* login as User or dropping it at the logout of a User
CartStateWritten(s) ==
    /\ <<cart[s], locked_prices[s], lock_status[s]>>
         # <<cart'[s], locked_prices'[s], lock_status'[s]>>
    /\ ~(~logged_in[s] /\ HoldsRole(s, "User")')

\* a session is logged in only with the username and role of a stored user, and a
\* logged-out session holds no username and no role
SessionsAreStoredUsers ==
    \A s \in Sessions :
        IF logged_in[s]
        THEN \E row \in users : row.username = username[s] /\ row.role = role[s]
        ELSE username[s] = NoUser /\ role[s] = NoRole

\* C17: no cart mutation, lock or cart-table write is performed by a session not
\* logged in with role User, and no forecast-table write by a session not logged
\* in with role Retailer; a session holds logged_in with a role only after a login
\* whose username, password and role all match one stored user, and loses it on
\* logout
C17_RoleGuardsEveryWrite ==
    /\ []SessionsAreStoredUsers
    /\ [][/\ \A s \in Sessions : CartStateWritten(s) => HoldsRole(s, "User")
          /\ \A u \in Usernames :
                user_cart'[u] # user_cart[u]
                => \E s \in Sessions : HoldsRole(s, "User") /\ username[s] = u
          /\ forecasts' # forecasts => \E s \in Sessions : HoldsRole(s, "Retailer")
          /\ \A s \in Sessions :
                (~logged_in[s] /\ logged_in'[s])
                => \E u \in Usernames, pw \in {"pw-u1", "pw-r1"}, r \in Roles :
                      /\ Login(s, u, pw, r)
                      /\ \E row \in users :
                            row.username = u /\ row.password = pw /\ row.role = r
          /\ \A s \in Sessions :
                (Logout(s) \/ RetailerLogout(s))
                => ~logged_in'[s] /\ role'[s] = NoRole]_vars

\* C17 witness: after a retailer generated forecasts and logged out, the same
\* browser holds a User session with a locked cart entry
C17_Witness ==
    /\ HoldsRole("s1", "User")
    /\ AvailableKeys # {}
    /\ cart["s1"] # <<>>
    /\ locked_prices["s1"] # <<>>
    /\ user_cart[username["s1"]] # <<>>

-----------------------------------------------------------------------------
(* Properties of the accounts (SpecSignup) *)

\* the sign-up form holds an input the specification rejects
SignupToReject(u, pw, name, confirm) ==
    \/ "" \in {u, pw, name, confirm}
    \/ pw # confirm
    \/ Len(pw) < 4
    \/ \E row \in users : row.username = u

\* C18: a sign-up with a missing field, a mismatched confirmation, a password
\* shorter than 4 characters or a stored username leaves the credential table
\* unchanged; no step removes or changes a stored user, so each stored user's
\* password, name and role are those given when the username was created
C18_SignupRejectsAndKeeps ==
    /\ [](\A a, b \in users : a.username = b.username => a = b)
    /\ [][/\ users \subseteq users'
          /\ users' # users =>
                ~\E s \in Sessions, u \in TypedUsernames, pw \in TypedPasswords,
                    name \in TypedNames, confirm \in TypedPasswords, r \in Roles :
                    /\ SignupToReject(u, pw, name, confirm)
                    /\ CreateAccount(s, u, pw, name, confirm, r)]_vars

\* C18 witness: u2 signed up and is logged in with the password of the sign-up,
\* while a second browser session is at the form where u2 could be signed up again
C18_Witness ==
    /\ \E row \in users : row.username = "u2" /\ row.password = "pw-x2"
    /\ \E s \in Sessions : logged_in[s] /\ username[s] = "u2"
    /\ \E s \in Sessions : ~logged_in[s]

-----------------------------------------------------------------------------
(* Properties of regeneration (SpecGen) *)

\* the number of days the page of generation g forecasts
HorizonOf(g) == IF g.page = "App" THEN HorizonApp ELSE HorizonRetailer

\* the rows generation g yields when it runs on date d
RowsOfGeneration(g, d) == IF g.page = "App" THEN AppRows(g, d) ELSE RetailerRows(g, d)

\* rows is one complete run of pair k: one row per day, consecutive days from date d
CompleteRun(rows, k, d, horizon) ==
    /\ Len(rows) = horizon
    /\ \A n \in 1..Len(rows) :
          /\ rows[n].category = k[1] /\ rows[n].product = k[2]
          /\ rows[n].forecast_day = d + (n - 1)
    /\ \A n, m \in 1..Len(rows) : rows[n].forecast_day = rows[m].forecast_day => n = m

\* this step is a successful generation for pair k
GenerationStep(k) ==
    \/ forecasts'[k] # forecasts[k]
    \/ generated_by'[k] # generated_by[k]

\* C19: after any sequence of successful generations from either retailer page, the
\* forecast table holds for each (category, product) only the rows of the most
\* recent generation: one row per forecast_day, consecutive days starting at that
\* generation's date, and no row of an earlier generation
C19_OnlyLatestGeneration ==
    /\ [](\A k \in Keys :
            IF generated_by[k] = <<>>
            THEN forecasts[k] = <<>>
            ELSE LET g == generated_by[k][1]
                     rows == forecasts[k]
                 IN  /\ rows # <<>>
                     /\ CompleteRun(rows, k, rows[1].forecast_day, HorizonOf(g))
                     /\ rows = RowsOfGeneration(g, rows[1].forecast_day))
    /\ [][\A k \in Keys :
            GenerationStep(k) =>
                /\ generated_by'[k] # <<>>
                /\ forecasts'[k] = RowsOfGeneration(generated_by'[k][1], today)
                /\ CompleteRun(forecasts'[k], k, today, HorizonOf(generated_by'[k][1]))
                /\ \A j \in Keys \ {k} : forecasts'[j] = forecasts[j]]_vars

\* C19 witness: on the second day the table holds a run generated that day by App.py
\* for one pair next to a run generated the day before by Retailer.py for another;
\* every input of SpecGen names the product Milk, so each pair was generated for at
\* both pages and on both days on the way
C19_Witness ==
    /\ today = 1
    /\ \E k \in Keys :
          /\ generated_by[k] # <<>> /\ generated_by[k][1].page = "App"
          /\ forecasts[k][1].forecast_day = 1
    /\ \E k \in Keys :
          /\ generated_by[k] # <<>> /\ generated_by[k][1].page = "Retailer"
          /\ forecasts[k][1].forecast_day = 0

-----------------------------------------------------------------------------
(* Properties of failing generations (SpecFail) *)

\* the attempt with input g fails: city/state mismatch, weather provider error or
\* fewer days than the horizon, or an error of the model or the explainer
FailedAttempt(g) ==
    \/ g.page = "Retailer" /\ ~g.city_ok
    \/ ~g.weather_ok
    \/ g.page = "Retailer" /\ Len(g.weather) < HorizonRetailer
    \/ g.page = "App" /\ Len(FirstRows(g.weather \o g.weather \o g.weather \o g.weather,
                                       HorizonApp)) < HorizonApp
    \/ ~g.model_ok

\* this step is the attempt with input g
AttemptStep(g) == PredictAndSaveApp("s2", g) \/ PredictAndSaveRetailer("s2", g)

\* C20: a generation attempt that fails (city/state mismatch, weather provider
\* error or fewer rows than the horizon, an error raised by the model or the
\* explainer) leaves the forecast table unchanged: the previous run of the pair
\* stays complete and no row of the failed attempt is persisted
C20_FailedAttemptKeepsTable ==
    [][(forecasts' # forecasts \/ generated_by' # generated_by) =>
          ~\E g \in FailGenInputs : FailedAttempt(g) /\ AttemptStep(g)]_vars

\* C20 witness: both pairs hold a complete run, and the retailer is at the pages
\* where each kind of failing attempt for these pairs can be submitted
C20_Witness ==
    /\ IsRetailer("s2")
    /\ \A k \in {<<"Dairy", "Milk">>, <<"Fruits", "Milk">>} :
          /\ generated_by[k] # <<>>
          /\ Len(forecasts[k]) = HorizonOf(generated_by[k][1])
          /\ \E g \in FailGenInputs :
                /\ <<g.category, g.product>> = k /\ g.page = "Retailer" /\ ~g.city_ok
                /\ RetailerInputOk(g)
          /\ \E g \in FailGenInputs :
                /\ <<g.category, g.product>> = k /\ g.page = "App" /\ ~g.model_ok
                /\ AppInputOk(g)

-----------------------------------------------------------------------------
(* Properties of holiday provider failures (SpecHoliday) *)

\* Saturday or Sunday
IsWeekend(d) == Weekday(d) >= 5

\* the default series of the page for the day of row r
DefaultHoliday(page, r) ==
    IF page = "App" THEN 0 ELSE (IF IsWeekend(r.forecast_day) THEN 1 ELSE 0)

\* C21: if the holiday provider call fails, the caller is not failed and generation
\* proceeds: the attempt persists its run, with exactly one binary holiday flag per
\* horizon day, all zeros in App.py and weekends only in Retailer.py
C21_HolidayFallback ==
    /\ [](\A k \in Keys :
            (generated_by[k] # <<>> /\ ~generated_by[k][1].holiday_ok) =>
                LET g == generated_by[k][1] IN
                /\ Len(forecasts[k]) = HorizonOf(g)
                /\ \A n \in 1..Len(forecasts[k]) :
                      /\ forecasts[k][n].holiday \in {0, 1}
                      /\ forecasts[k][n].holiday = DefaultHoliday(g.page, forecasts[k][n]))
    /\ [][\A g \in HolidayGenInputs :
            (~g.holiday_ok /\ AttemptStep(g)) =>
                generated_by'[<<g.category, g.product>>] = <<g>>]_vars

\* C21 witness: a Retailer.py run and an App.py run, each generated while the holiday
\* provider failed (and would have reported holidays), are in the table
C21_Witness ==
    \E k, j \in Keys :
        /\ generated_by[k] # <<>> /\ generated_by[j] # <<>>
        /\ ~generated_by[k][1].holiday_ok /\ ~generated_by[j][1].holiday_ok
        /\ generated_by[k][1].page = "Retailer" /\ generated_by[j][1].page = "App"
        /\ generated_by[k][1].holidays # {} /\ generated_by[j][1].holidays # {}
        /\ \E n \in 1..Len(forecasts[k]) : forecasts[k][n].holiday = 1

-----------------------------------------------------------------------------
(* Properties of two devices of one user (SpecDevices) *)

\* this step is a minus button, at either device, that removes the entry of pair k
RemovedByDecrement(k) ==
    /\ lastOp' # lastOp
    /\ lastOp'.op = "remove" /\ lastOp'.key = k

\* C22: with two sessions of the same username open at once, a lock persisted by one
\* session is never cleared or changed by the other session's add, increment,
\* non-removing decrement, lock or logout; the persisted lock of an entry changes
\* only when that entry is removed by a decrement to zero
C22_PersistedLockSurvivesOtherDevice ==
    [][\A k \in Keys :
          PersistedLock(user_cart["u1"], k) # NULL
          => \/ PersistedLock(user_cart'["u1"], k) = PersistedLock(user_cart["u1"], k)
             \/ RemovedByDecrement(k)]_vars

\* the two devices are logged in as u1, the persisted cart records a lock of pair k
\* and the session of device s holds the entry without the lock
StaleDevice(s, k) ==
    /\ \A t \in Sessions : IsUser(t) /\ username[t] = "u1"
    /\ PersistedLock(user_cart["u1"], k) # NULL
    /\ InCart(cart[s], k)
    /\ k \notin DOMAIN locked_prices[s]

C22_StaleDeviceReached == \E s \in Sessions, k \in Keys : StaleDevice(s, k)

-----------------------------------------------------------------------------
(* Properties of the view against the persisted state (Spec) *)

\* the pair whose forecast session s displays
DisplayedPair(s) == <<latest_forecast[s][1].category, latest_product[s]>>

\* the forecast session s displays is the persisted forecast of the displayed pair
DisplayIsCurrent(s) ==
    DisplayRendered(s) =>
        latest_forecast[s] = fetch_prediction(DisplayedPair(s)[1], DisplayedPair(s)[2])

\* the (day, price) pairs of the persisted forecast rows of pair k
PersistedDayPrices(k) ==
    {<<ToDatetime(forecasts[k][i].forecast_day), forecasts[k][i].forecasted_price>> :
        i \in 1..Len(forecasts[k])}

\* C23: every user interaction recomputes the view from the currently persisted
\* state: after a retailer regenerates a product's forecast, or the persisted cart of
\* the user changes, the next interaction in the user's session displays, and a lock
\* then captures, values of the newly persisted forecast rows and cart rows rather
\* than of copies held in the session
C23_ViewFromPersistedState ==
    [][UserStep(TheSession) =>
          /\ DisplayIsCurrent(TheSession)'
          /\ \A k \in Keys :
                LockWritten(k) => locked_prices'[TheSession][k] \in PersistedDayPrices(k)
          /\ SessionLive' =>
                Mirrors(user_cart'[TheUser], cart'[TheSession], locked_prices'[TheSession])]_vars

-----------------------------------------------------------------------------
(* Properties of the pair a lock belongs to (Spec) *)

\* C24: a lock on the cart entry (category, product) records the best-buy day and
\* price computed from the forecast rows of that same (category, product), for every
\* order of category selection, product selection, Generate Forecast, Add to Cart
\* and lock actions, also when two categories hold a product of the same name
C24_LockFromOwnForecast ==
    [][\A k \in Keys :
          LockWritten(k) =>
              /\ DisplayedPair(TheSession) = k
              /\ \A i \in 1..Len(latest_forecast[TheSession]) :
                    /\ latest_forecast[TheSession][i].category = k[1]
                    /\ latest_forecast[TheSession][i].product = k[2]
              /\ locked_prices'[TheSession][k] =
                    <<BestRow(RollingDf(TheSession)).forecast_day,
                      BestRow(RollingDf(TheSession)).forecasted_price>>]_vars

-----------------------------------------------------------------------------
(* Properties of logout and re-login (Spec) *)

\* the step is a successful login of the shopper on the user page
LoginStep == ~logged_in[TheSession] /\ SessionLive'

\* session cart c with locks lp is exactly what the rows record: the same entries and
\* quantities in the same order, the locked entries with the recorded date and price,
\* every other entry unlocked and no lock without an entry
SameCart(rows, c, lp) ==
    /\ Mirrors(rows, c, lp)
    /\ DOMAIN lp \subseteq CartKeys(c)
    /\ \A i \in 1..Len(rows) :
          rows[i].locked_price = <<0>> => RowKey(rows[i]) \in DOMAIN lp

\* C25: logging out from the user page and logging back in as the same user restores
\* exactly the same cart: the same (category, product) entries and quantities, for
\* locked entries the same locked date and locked price (also a locked price of 0),
\* and unlocked entries remain unlocked.  The logout records the cart it held, the
\* record is untouched while the user is logged out, and the login yields the cart
\* the record describes.
C25_CartSurvivesRelogin ==
    [][/\ LogoutStep =>
             SameCart(user_cart'[TheUser], cart[TheSession], locked_prices[TheSession])
       /\ (~logged_in[TheSession] /\ ~logged_in'[TheSession]) =>
             user_cart'[TheUser] = user_cart[TheUser]
       /\ LoginStep =>
             /\ user_cart'[TheUser] = user_cart[TheUser]
             /\ SameCart(user_cart[TheUser], cart'[TheSession], locked_prices'[TheSession])
             /\ \A k \in CartKeys(cart'[TheSession]) :
                   k \in DOMAIN lock_status'[TheSession]]_vars

\* C25 witness: the shopper has logged out of a cart of two entries, one locked at
\* price 0 and one unlocked with the largest quantity, and can log in again
C25_Witness ==
    /\ ~logged_in[TheSession]
    /\ cart[TheSession] = <<>>
    /\ Len(user_cart[TheUser]) = 2
    /\ \E i \in 1..2 : user_cart[TheUser][i].locked_price = <<0>>
    /\ \E i \in 1..2 : /\ user_cart[TheUser][i].locked_price = NULL
                       /\ user_cart[TheUser][i].quantity = MaxQty

-----------------------------------------------------------------------------
(* Properties of the days to expiry the Retailer page accepts (SpecGen) *)

\* the providers and the model do their part for input g of pages/Retailer.py
RetailerAllGood(g) ==
    /\ g.page = "Retailer"
    /\ g.dte \in 0..300
    /\ g.city_ok /\ g.weather_ok /\ Len(g.weather) = HorizonRetailer
    /\ g.model_ok

\* C26: on the Retailer page, for every days-to-expiry value the input accepts (0.0
\* to 30.0) and every category, a generation whose city/state check passes, whose
\* weather and holiday providers return a full 12-day series and whose model
\* predicts successfully persists exactly 12 rows for the (category, product)
C26_RetailerPersistsTwelveRows ==
    \A g \in WideGenInputs :
        RetailerAllGood(g) =>
            ENABLED (/\ PredictAndSaveRetailer("s2", g)
                     /\ generated_by'[<<g.category, g.product>>] = <<g>>
                     /\ Len(forecasts'[<<g.category, g.product>>]) = HorizonRetailer
                     /\ forecasts'[<<g.category, g.product>>][1].forecast_day = today)

-----------------------------------------------------------------------------
(* Properties of a shared browser (SpecShared) *)

\* this step is an operation of session s: its login state or its cart state changes
OperationOf(s) ==
    \/ logged_in'[s] # logged_in[s]
    \/ cart'[s] # cart[s]
    \/ locked_prices'[s] # locked_prices[s]
    \/ lock_status'[s] # lock_status[s]

\* C27: operations in a session logged in as username U (add, increment, decrement,
\* lock, logout) never insert, delete or change persisted user_cart rows of any
\* other username; and after U logs out and a different user V logs in within the
\* same browser session, V's session cart and locks are those hydrated from V's
\* persisted rows, never U's
C27_OtherUsersRowsUntouched ==
    [][\A s \in Sessions :
          /\ (IsUser(s) /\ OperationOf(s)) =>
                \A v \in Usernames \ {username[s]} : user_cart'[v] = user_cart[v]
          /\ (~logged_in[s] /\ logged_in'[s]) =>
                /\ user_cart' = user_cart
                /\ SameCart(user_cart[username'[s]], cart'[s], locked_prices'[s])]_vars

\* C27 witness: u2 is logged in at browser s1, where u1 had filled and locked a cart
\* before logging out; u2's session cart is u2's own, not u1's
C27_Witness ==
    /\ IsUser("s1") /\ username["s1"] = "u2"
    /\ Len(user_cart["u1"]) = 1
    /\ user_cart["u1"][1].locked_price # NULL
    /\ user_cart["u1"][1].quantity = MaxQty
    /\ Len(cart["s1"]) = 1
    /\ cart["s1"][1][3] = 1
    /\ locked_prices["s1"] = <<>>

-----------------------------------------------------------------------------
(* Properties of a window of one row (SpecHorizonEnd) *)

\* the window session s shows has exactly one row
SingleRowWindow(s) == IntervalShown(s) /\ Len(RollingDf(s)) = 1

-----------------------------------------------------------------------------
(* Properties of lock_status (Spec) *)

\* the page of session s renders the lock column
LockColumnRendered(s) == DisplayRendered(s) /\ RollingDf(s) # <<>>

\* C29: in every reachable session state, lock_status[(category, product)] is False
\* only if locked_prices contains that key; hence the "already locked - modify cart
\* to unlock again" branch is never taken, and an increment or decrement (which sets
\* lock_status to True) never re-enables the lock action for a locked entry
C29_StatusFalseOnlyWhenLocked ==
    \A s \in Sessions :
        /\ \A k \in DOMAIN lock_status[s] :
              lock_status[s][k] = FALSE => k \in DOMAIN locked_prices[s]
        /\ LockColumnRendered(s) => ~AlreadyLockedBranch(s)
        /\ \A k \in DOMAIN locked_prices[s] :
              (k \in DOMAIN lock_status[s] /\ lock_status[s][k] /\ LockKey(s) = k)
                  => ~LockEnabled(s)

\* C29 witness: the displayed pair is a locked entry whose quantity was changed after
\* the lock, so that lock_status is True again, and the lock column is rendered
C29_Witness ==
    /\ LockColumnRendered(TheSession)
    /\ LockKey(TheSession) \in DOMAIN locked_prices[TheSession]
    /\ lock_status[TheSession][LockKey(TheSession)] = TRUE
    /\ Qty(cart[TheSession], LockKey(TheSession)) >= 1
    /\ \E k \in DOMAIN lock_status[TheSession] : ~lock_status[TheSession][k]

=============================================================================
